---- MODULE Spec2Model ----
(***************************************************************************)
(* Verification model of the invitation app: the in-page EventBus and the  *)
(* TemplateEngine (core/eventBus.js), the hash Router (router module), the *)
(* YAML configuration service (services/yamlConfigService.js), the         *)
(* StorageService (services/storageService.js), the RSVP and contact forms *)
(* (components/rsvp.js, components/contact.js) and the start of            *)
(* InvitationApp (core/app.js).                                            *)
(*                                                                         *)
(* Each component is a state machine over its own variables; a             *)
(* specification per component or scenario (SpecBus, SpecAsync,            *)
(* SpecRouter, SpecHistory, SpecBack, SpecLoad, SpecReload, SpecMerge,     *)
(* SpecGet, SpecStorage, SpecForm, SpecContact, SpecSubmit, SpecTemplate,  *)
(* SpecNav, SpecApp) leaves the other components' variables unchanged.     *)
(***************************************************************************)
EXTENDS Integers, Sequences, FiniteSets, TLC

\* ------------------------------------------------------------------ bounds
\* number of on()/once() calls made over a run of the bus
MaxRegs == 2
\* distinct user callback functions: 1..NumCallbacks
NumCallbacks == 2

\* event types used by callers of the bus (two of the names the components use)
EventTypes == {"navigation:change", "form:submit"}
\* payloads a publish may carry
Data == {1, 2}
Callbacks == 1..NumCallbacks
NoData == 0

VARIABLES
    events,     \* EventBus.events: Map eventType -> array of listener objects
    regs,       \* every listener object created so far, by id (closure data of
                \* the unsubscribe functions and of the once wrappers)
    em,         \* the synchronous emit in progress (position of listeners.forEach)
    resolved,   \* once(): value the returned promise resolved with, by id
    last        \* id whose unsubscribe function the last step called, else 0

busVars == <<events, regs, em, resolved, last>>

VARIABLES
    routes,          \* Router.routes: names of the registered routes
    currentSection,  \* Router.currentSection
    history,         \* Router.history: records (from, to); the timestamp is not read
    active,          \* regions with class active and aria-hidden="false"
    activeLinks,     \* .nav-link elements with class active and aria-current
    docTitle,        \* section whose route title document.title shows ("" before)
    locHash,         \* window.location.hash without the '#'
    pending,         \* navigate calls suspended at await route.beforeEnter, oldest first
    backExpect,      \* goBack bookkeeping, see GoBack ("" when none is in flight)
    step             \* what the last step called, returned, emitted and pushed

routerVars == <<routes, currentSection, history, active, activeLinks, docTitle,
                locHash, pending, backExpect, step>>

VARIABLES
    config,       \* YamlConfigService.config: Null or [id, doc]; id tells the
                  \* parsed objects of different fetches apart
    isLoaded,     \* YamlConfigService.isLoaded
    loadPromise,  \* YamlConfigService.loadPromise: 0 for null, else the fetch
    fetches,      \* the _fetchAndParseYaml promises made so far
    calls,        \* the promises loadConfig returned to its callers
    jsConfig,     \* argument of mergeWithJsConfig
    merged,       \* value mergeWithJsConfig returned
    path,         \* argument of get
    got,          \* value get returned
    cpc,          \* which call the service has answered last
    reloaded      \* the fetches reloadConfig calls started, in call order

cfgVars == <<config, isLoaded, loadPromise, fetches, calls, jsConfig, merged,
             path, got, cpc, reloaded>>

VARIABLES
    storage,      \* localStorage: storage key -> the parsed form of the JSON text
                  \* held there (NoItem when the key is absent)
    isAvailable,  \* StorageService.isAvailable
    now,          \* the clock Date.now() reads
    sop           \* the last StorageService call: name, key, arguments, result

storVars == <<storage, isAvailable, now, sop>>

VARIABLES
    required,         \* fields of #rsvp-form that carry the required attribute
    values,           \* field.value of each field of #rsvp-form
    errors,           \* fields with class error and a .field-error message
    isSubmitting,     \* RSVPComponent.isSubmitting
    formData,         \* RSVPComponent.formData
    emailConfigured,  \* App.getConfig().email.serviceUrl is set
    requests,         \* the submissionData of the email-service calls the RSVP
                      \* form made that have not been answered yet
    fop               \* what the last step of the form did

formVars == <<required, values, errors, isSubmitting, formData, emailConfigured,
              requests, fop>>

VARIABLES
    aem               \* the publish made with options.async: phase, the ids
                      \* listeners.map went through, what each listener's
                      \* executeListener promise has come to, and how the
                      \* promise emit returned has settled

asyncVars == <<aem>>

VARIABLES
    contact           \* the ContactComponent and #contact-form: values, errors,
                      \* formData, isSubmitting, requests (as above), timers
                      \* (pending resetForm timers), op (what the last step did)

contactVars == <<contact>>

VARIABLES
    windowAppConfig,  \* window.AppConfig (Null when the script is absent)
    appConfig,        \* InvitationApp.config
    hint,             \* #config-help-banner has been inserted
    appPc,            \* how far InvitationApp.init has come
    yamlOutcome,      \* how yamlService.loadConfig('config.yaml') settled
    phases            \* the start-up phases done so far, in the order done

appVars == <<windowAppConfig, appConfig, hint, appPc, yamlOutcome, phases>>

VARIABLES
    lists,       \* the configured lists the template engine renders: for each
                 \* list section the number of entries, Absent when not configured
    dom,         \* what each list section's container holds
    populated,   \* the list sections whose populate function has run
    navigation,  \* config.customization.navigation: section -> flag
    hidden       \* the sections whose nav link and region have display none

tplVars == <<lists, dom, populated, navigation, hidden>>

vars == <<busVars, routerVars, cfgVars, storVars, formVars, appVars, tplVars,
          contactVars, asyncVars>>

\* what an action of one component leaves alone: the other components
busRest == <<routerVars, cfgVars, storVars, formVars, appVars, tplVars,
    contactVars, asyncVars>>
routerRest == <<busVars, cfgVars, storVars, formVars, appVars, tplVars,
    contactVars, asyncVars>>
cfgRest == <<busVars, routerVars, storVars, formVars, appVars, tplVars,
    contactVars, asyncVars>>
storRest == <<busVars, routerVars, cfgVars, formVars, appVars, tplVars,
    contactVars, asyncVars>>
formRest == <<busVars, routerVars, cfgVars, storVars, appVars, tplVars,
    contactVars, asyncVars>>
contactRest == <<busVars, routerVars, cfgVars, storVars, appVars, tplVars, asyncVars>>
asyncRest == <<routerVars, cfgVars, storVars, formVars, appVars, tplVars,
    contactVars>>
tplRest == <<busVars, routerVars, cfgVars, storVars, formVars, appVars,
    contactVars, asyncVars>>

\* ------------------------------------------------------------- Map / Array
MapHas(m, k) == k \in DOMAIN m
MapSet(m, k, v) == [x \in (DOMAIN m) \cup {k} |-> IF x = k THEN v ELSE m[x]]
MapDelete(m, k) == [x \in (DOMAIN m) \ {k} |-> m[x]]
EmptyMap == [x \in {} |-> <<>>]

\* Array.prototype.findIndex with the predicate l => l[field] === val: the
\* first index whose element has that field value, 0 for -1
FindIndex(arr, field, val) ==
    IF \E i \in 1..Len(arr) : arr[i][field] = val
    THEN CHOOSE i \in 1..Len(arr) :
             arr[i][field] = val /\ \A j \in 1..(i - 1) : arr[j][field] # val
    ELSE 0

\* Array.prototype.splice(index, 1)
Splice1(arr, i) == SubSeq(arr, 1, i - 1) \o SubSeq(arr, i + 1, Len(arr))

\* ------------------------------------------------------------------ EventBus
\* the argument of off(): a listener id (string) or a callback (function)
IdKey(id) == [kind |-> "string", val |-> id]
FnKey(cb) == [kind |-> "function", val |-> cb]

\* EventBus.generateId: timestamp plus random suffix, taken to be fresh
generateId(rs) == Len(rs) + 1

\* EventBus.off(eventType, callbackOrId): the registry afterwards and the
\* value returned
off(ev, eventType, callbackOrId) ==
    IF ~MapHas(ev, eventType)
    THEN [events |-> ev, ret |-> FALSE]
    ELSE LET listeners == ev[eventType]
             index == IF callbackOrId.kind = "string"
                      THEN FindIndex(listeners, "id", callbackOrId.val)
                      ELSE FindIndex(listeners, "callback", callbackOrId.val)
         IN IF index > 0
            THEN LET spliced == Splice1(listeners, index)
                 IN [events |-> IF Len(spliced) = 0
                                THEN MapDelete(ev, eventType)
                                ELSE MapSet(ev, eventType, spliced),
                     ret |-> TRUE]
            ELSE [events |-> ev, ret |-> FALSE]

\* a plausible slip: the closure returned by on() identifies its registration
\* by the callback instead of the generated id
unsubscribeByCallback(ev, eventType, listener) ==
    off(ev, eventType, FnKey(listener.callback))

\* the function on() returns: () => this.off(eventType, listener.id)
unsubscribe(ev, eventType, listener) ==
    off(ev, eventType, IdKey(listener.id))

\* EventBus.on, registry part: create the array if absent, push the listener
onPush(ev, eventType, listener) ==
    LET listeners == IF MapHas(ev, eventType) THEN ev[eventType] ELSE <<>>
    IN MapSet(ev, eventType, Append(listeners, listener))

\* a clear(eventType) that empties the array and keeps the Map entry
clearLeavingEntry(ev, eventType) ==
    IF eventType # "" THEN MapSet(ev, eventType, <<>>) ELSE EmptyMap

\* EventBus.clear(eventType): eventType = "" stands for the call without argument
clear(ev, eventType) ==
    IF eventType # "" THEN MapDelete(ev, eventType) ELSE EmptyMap

\* EventBus.getListenerCount
getListenerCount(ev, eventType) ==
    IF MapHas(ev, eventType) THEN Len(ev[eventType]) ELSE 0

\* ---- the emit in progress
\* phase: "idle" no publish made; "iter" inside listeners.forEach, between two
\* listeners; "in" inside a listener's callback; "done" emit has returned.
\* results is emit's local array; snapshot (the ids registered when emit was
\* called) and mutated (a listener body called the bus) are bookkeeping.
Idle == [phase |-> "idle", type |-> "", data |-> NoData, live |-> FALSE,
         arr |-> <<>>, idx |-> 0, len |-> 0, cur |-> 0, results |-> <<>>,
         snapshot |-> <<>>, mutated |-> FALSE]

Iterating == em.phase \in {"iter", "in"}

\* the array listeners.forEach walks: the registry's own array while it is still
\* in the Map, the array object as it was left once the Map dropped it
CurArr == IF em.live THEN events[em.type] ELSE em.arr

\* the frame as the next call finds it: the page has taken a finished publish's
\* result; a call made by a listener body is noted
Base == IF em.phase = "done" THEN Idle
        ELSE [em EXCEPT !.mutated = (em.mutated \/ em.phase = "in")]

\* A registry change made while forEach is walking: the walked array is the
\* object held by the Map, so it changes with it; when the Map entry is deleted
\* (off on the last listener, clear) the walk keeps the orphaned array object.
Rewalk(frame, newEvents, orphan) ==
    IF frame.phase \in {"iter", "in"} /\ frame.live /\ ~MapHas(newEvents, frame.type)
    THEN [frame EXCEPT !.live = FALSE, !.arr = orphan]
    ELSE frame

\* calls are made by the page's code when no publish is running, or by the body
\* of the listener being invoked
MayCall == em.phase \in {"idle", "done", "in"}

IdsOf(arr) == [i \in 1..Len(arr) |-> arr[i].id]

\* on(eventType, callback) with a callable callback
On(eventType, cb) ==
    /\ MayCall
    /\ Len(regs) < MaxRegs
    /\ LET id == generateId(regs)
           listener == [id |-> id, callback |-> cb]
       IN /\ events' = onPush(events, eventType, listener)
          /\ regs' = Append(regs, [type |-> eventType, callback |-> cb,
                                   once |-> FALSE])
    /\ em' = Base
    /\ resolved' = Append(resolved, NoData)
    /\ last' = 0
    /\ UNCHANGED busRest

\* on(eventType, callback) with a callback that is not a function: throws
\* before anything is touched
OnRejected(eventType) ==
    /\ MayCall
    /\ em' = Base
    /\ last' = 0
    /\ UNCHANGED <<events, regs, resolved>>
    /\ UNCHANGED busRest

\* once(eventType, callback): on() with a fresh wrapper closure (callback -id)
Once(eventType) ==
    /\ MayCall
    /\ Len(regs) < MaxRegs
    /\ LET id == generateId(regs)
           listener == [id |-> id, callback |-> 0 - id]
       IN /\ events' = onPush(events, eventType, listener)
          /\ regs' = Append(regs, [type |-> eventType, callback |-> 0 - id,
                                   once |-> TRUE])
    /\ em' = Base
    /\ resolved' = Append(resolved, NoData)
    /\ last' = 0
    /\ UNCHANGED busRest

\* off(eventType, callback)
Off(eventType, cb) ==
    /\ MayCall
    /\ LET r == off(events, eventType, FnKey(cb))
       IN /\ events' = r.events
          /\ em' = Rewalk(Base, r.events, <<>>)
    /\ last' = 0
    /\ UNCHANGED <<regs, resolved>>
    /\ UNCHANGED busRest

\* a call of the function returned by the on() that created registration id
Unsubscribe(id) ==
    /\ MayCall
    /\ id \in 1..Len(regs)
    /\ ~regs[id].once
    /\ LET r == unsubscribe(events, regs[id].type,
                            [id |-> id, callback |-> regs[id].callback])
       IN /\ events' = r.events
          /\ em' = Rewalk(Base, r.events, <<>>)
    /\ last' = id
    /\ UNCHANGED <<regs, resolved>>
    /\ UNCHANGED busRest

\* clear(eventType) and clear()
Clear(eventType) ==
    /\ MayCall
    /\ events' = clear(events, eventType)
    /\ em' = Rewalk(Base, events',
                    IF Iterating /\ em.live THEN events[em.type] ELSE <<>>)
    /\ last' = 0
    /\ UNCHANGED <<regs, resolved>>
    /\ UNCHANGED busRest

\* emit(eventType, data), synchronous mode, up to the start of listeners.forEach;
\* without a Map entry it returns Promise.resolve([]) at once
Emit(eventType, data) ==
    /\ em.phase \in {"idle", "done"}
    /\ IF ~MapHas(events, eventType)
       THEN em' = [Idle EXCEPT !.phase = "done", !.type = eventType, !.data = data]
       ELSE em' = [Idle EXCEPT !.phase = "iter", !.type = eventType, !.data = data,
                               !.live = TRUE, !.idx = 1,
                               !.len = Len(events[eventType]),
                               !.snapshot = IdsOf(events[eventType])]
    /\ last' = 0
    /\ UNCHANGED <<events, regs, resolved>>
    /\ UNCHANGED busRest

\* forEach reaches index idx and the array has an element there: the listener's
\* callback is entered. A once wrapper first calls its unsubscribe function.
ListenerEnter ==
    /\ em.phase = "iter"
    /\ em.idx <= em.len
    /\ em.idx <= Len(CurArr)
    /\ LET listener == CurArr[em.idx]
           entered == [em EXCEPT !.phase = "in", !.cur = listener.id]
       IN IF regs[listener.id].once
          THEN LET r == unsubscribe(events, em.type, listener)
               IN /\ events' = r.events
                  /\ em' = Rewalk(entered, r.events, <<>>)
          ELSE /\ em' = entered
               /\ UNCHANGED events
    /\ last' = 0
    /\ UNCHANGED <<regs, resolved>>
    /\ UNCHANGED busRest

\* the callback returns or throws; emit records the outcome. A once wrapper
\* resolves its promise after the user callback (if any) returned; a wrapper
\* whose user callback throws never resolves.
ListenerReturn(threw) ==
    /\ em.phase = "in"
    /\ em' = [em EXCEPT !.phase = "iter", !.idx = em.idx + 1, !.cur = 0,
                        !.results = Append(em.results,
                                           [success |-> ~threw, id |-> em.cur])]
    /\ resolved' = IF regs[em.cur].once /\ ~threw /\ resolved[em.cur] = NoData
                   THEN [resolved EXCEPT ![em.cur] = em.data]
                   ELSE resolved
    /\ last' = 0
    /\ UNCHANGED <<events, regs>>
    /\ UNCHANGED busRest

\* forEach reaches an index below the initial length where the array no longer
\* has an element: the index is skipped
ListenerSkip ==
    /\ em.phase = "iter"
    /\ em.idx <= em.len
    /\ em.idx > Len(CurArr)
    /\ em' = [em EXCEPT !.idx = em.idx + 1]
    /\ last' = 0
    /\ UNCHANGED <<events, regs, resolved>>
    /\ UNCHANGED busRest

\* forEach is over: emit returns Promise.resolve(results)
EmitReturn ==
    /\ em.phase = "iter"
    /\ em.idx > em.len
    /\ em' = [em EXCEPT !.phase = "done"]
    /\ last' = 0
    /\ UNCHANGED <<events, regs, resolved>>
    /\ UNCHANGED busRest

BusNext ==
    \/ \E t \in EventTypes, c \in Callbacks : On(t, c)
    \/ \E t \in EventTypes : OnRejected(t)
    \/ \E t \in EventTypes : Once(t)
    \/ \E t \in EventTypes, c \in Callbacks : Off(t, c)
    \/ \E i \in 1..MaxRegs : Unsubscribe(i)
    \/ \E t \in EventTypes \cup {""} : Clear(t)
    \/ \E t \in EventTypes, d \in Data : Emit(t, d)
    \/ ListenerEnter
    \/ \E b \in BOOLEAN : ListenerReturn(b)
    \/ ListenerSkip
    \/ EmitReturn

\* ---- emit with options.async
\* what a listener's callback does when invoked: return a value, throw, or
\* return an awaitable that is still unsettled when the callback returns
Behaviours == {"returns", "throws", "awaits"}

\* the timeout error of executeListener and the value a callback yields
TimeoutError == "Listener timeout"
ListenerError == "listener error"
Result == "result"

NoPublish == [phase |-> "idle", ids |-> <<>>, state |-> <<>>, results |-> <<>>,
              settled |-> "", value |-> <<>>]

\* executeListener(listener, data, timeout) up to the return of its executor:
\* the timer is set and the callback invoked; the promise is settled at once
\* unless the callback returned an awaitable
executeListener(behaviour) ==
    CASE behaviour = "returns" -> "fulfilled"
      [] behaviour = "throws" -> "rejected"
      [] behaviour = "awaits" -> "pending"

\* what the async function given to listeners.map returns for a settled
\* executeListener promise: the result, or null after the catch
mapped(state) == IF state = "fulfilled" THEN Result ELSE "null"

\* the entry resultEntry to results for a settled executeListener promise
resultEntry(state) ==
    [success |-> state = "fulfilled",
     error |-> CASE state = "timeout" -> TimeoutError
                 [] state = "rejected" -> ListenerError
                 [] OTHER -> ""]

\* Promise.all over the promises of the async functions: pending while one of
\* them is, fulfilled with their values otherwise (none of them rejects)
promiseAll(frame) ==
    IF \E i \in 1..Len(frame.state) : frame.state[i] = "pending"
    THEN frame
    ELSE [frame EXCEPT !.phase = "settled", !.settled = "fulfilled",
                       !.value = [i \in 1..Len(frame.state) |->
                                     mapped(frame.state[i])]]

\* emit(eventType, data, {async: true}): listeners.map invokes every callback
\* in turn, each in its own executeListener promise
EmitAsync(eventType, behaviours) ==
    /\ em.phase \in {"idle", "done"}
    /\ aem.phase \in {"idle", "settled"}
    /\ IF ~MapHas(events, eventType)
       THEN aem' = [NoPublish EXCEPT !.phase = "settled", !.settled = "fulfilled"]
       ELSE LET listeners == events[eventType]
                state == [i \in 1..Len(listeners) |->
                             executeListener(behaviours[i])]
                done == {i \in 1..Len(listeners) : state[i] # "pending"}
            IN aem' = promiseAll(
                  [NoPublish EXCEPT
                     !.phase = "waiting",
                     !.ids = IdsOf(listeners),
                     !.state = state,
                     !.results = [i \in 1..Cardinality(done) |->
                                    resultEntry(state[CHOOSE k \in done :
                                       Cardinality({j \in done : j < k}) = i - 1])]])
    /\ UNCHANGED busVars
    /\ UNCHANGED asyncRest

\* the awaitable a callback returned settles before the timeout
AwaitableSettles(i, ok) ==
    /\ aem.phase = "waiting"
    /\ i \in 1..Len(aem.state)
    /\ aem.state[i] = "pending"
    /\ LET state == IF ok THEN "fulfilled" ELSE "rejected"
       IN aem' = promiseAll([aem EXCEPT !.state[i] = state,
                                        !.results = Append(@, resultEntry(state))])
    /\ UNCHANGED busVars
    /\ UNCHANGED asyncRest

\* the timer of executeListener fires: the awaitable has not settled
ListenerTimeout(i) ==
    /\ aem.phase = "waiting"
    /\ i \in 1..Len(aem.state)
    /\ aem.state[i] = "pending"
    /\ aem' = promiseAll([aem EXCEPT !.state[i] = "timeout",
                                     !.results = Append(@, resultEntry("timeout"))])
    /\ UNCHANGED busVars
    /\ UNCHANGED asyncRest

AsyncNext ==
    \/ \E t \in EventTypes, c \in Callbacks : On(t, c)
    \/ \E t \in EventTypes, b \in [1..MaxRegs -> Behaviours] : EmitAsync(t, b)
    \/ \E i \in 1..MaxRegs, ok \in BOOLEAN : AwaitableSettles(i, ok)
    \/ \E i \in 1..MaxRegs : ListenerTimeout(i)

\* ==================================================================== Router
\* ------------------------------------------------------------------ bounds
\* navigate calls that may be awaiting their beforeEnter hook at the same time
MaxPending == 2
\* history-recording navigations explored before the history is consumed again
MaxRecorded == 2

\* Router.maxHistory
maxHistory == 50

\* Router.registerDefaultRoutes: the five sections
sections == <<"home", "details", "gallery", "rsvp", "contact">>
\* section names callers pass to navigate: registered ones and an unknown one
NavTargets == {"details", "gallery", "nowhere"}
\* fragments the address bar may hold ("" is no fragment)
HashInputs == {"", "details"}
\* the page's markup holds a .page-section region and a .nav-link per section
regions == {sections[i] : i \in 1..Len(sections)}

\* a lookup that finds every name
hasRouteAlways(rts, section) == TRUE

\* Router.hasRoute / this.routes.has(section)
hasRoute(rts, section) == section \in rts

\* Router.showSection with a slip: the other regions are not hidden
showSectionKeepingOthers(act, section) ==
    IF section \in regions THEN act \cup {section} ELSE act

\* Router.showSection: hide every .page-section, then show the target if it exists
showSection(act, section) ==
    IF section \in regions THEN {section} ELSE {}

\* Router.updateNavigation: the link of the active section only
updateNavigation(links, activeSection) ==
    {l \in regions : l = activeSection}

\* Router.updateURL: [hash afterwards, whether history.pushState was called];
\* location.hash is "" for the URL "#", so the comparison with '#' never matches
updateURL(hash, section) ==
    LET url == IF section = "home" THEN "#" ELSE section
    IN IF hash # url
       THEN [hash |-> IF section = "home" THEN "" ELSE section, pushed |-> TRUE]
       ELSE [hash |-> hash, pushed |-> FALSE]

\* an addToHistory that records nothing
addToHistoryNothing(hist, from, to) == hist

\* an addToHistory without the limit on the size
addToHistoryUnbounded(hist, from, to) == Append(hist, [from |-> from, to |-> to])

\* Router.addToHistory
addToHistory(hist, from, to) ==
    LET pushed == Append(hist, [from |-> from, to |-> to])
    IN IF Len(pushed) > maxHistory THEN Tail(pushed) ELSE pushed

\* a splice that removes nothing
SpliceNone(hist) == hist

\* Array.prototype.splice(-2)
SpliceLast2(hist) == SubSeq(hist, 1, Len(hist) - 2)

\* the record of a step: the router method the page called or that resumed,
\* the section passed to a navigate call, what the method returned
\* ("suspended": a pending promise) and the bus events it published; expect is
\* filled when a goBack's navigation resumes (see GoBack); trace lists, in the
\* order of execution, what the navigate call concerned has done so far
NoStep == [op |-> "none", to |-> "", ret |-> "none", emitted |-> <<>>,
           expect |-> "", trace |-> <<>>]

\* where a navigate call may meet an exception: in the beforeEnter hook, in
\* history.pushState (updateURL), in getAppName() while the title is put
\* together (the configuration has no app entry), in the afterEnter hook
Faults == {"none", "beforeEnter", "pushState", "title", "afterEnter"}
\* the stage before which the call stops; 5: it runs through
failAt(fault) ==
    CASE fault = "beforeEnter" -> 1 [] fault = "pushState" -> 2
      [] fault = "title" -> 3 [] fault = "afterEnter" -> 4 [] fault = "none" -> 5

\* navigate with the statements of its first half in another order: the hook
\* is called before navigation:start is published
navigateBeginHookFirst == <<"beforeEnter", "navigation:start">>

\* navigate from the try to its first suspension: publish navigation:start,
\* call the beforeEnter hook and await it
navigateBegin == <<"navigation:start", "beforeEnter">>

\* a catch block that publishes nothing
navigateCatchSilent == <<>>

\* the catch block of navigate: publish navigation:error (and return false)
navigateCatch == <<"navigation:error">>

\* navigate after the await of beforeEnter, in statement order; updateHistory
\* decides on updateURL and addToHistory, and the call stops before the stage
\* that throws and publishes navigation:error from the catch
navigateRest(updateHistory, fault) ==
    LET n == failAt(fault)
        caught == navigateCatch
    IN IF n = 1 THEN caught
       ELSE <<"beforeEnter:done", "currentSection">> \o
            (IF n = 2 THEN caught
             ELSE (IF updateHistory THEN <<"updateURL">> ELSE <<>>) \o
                  <<"updateNavigation", "showSection">> \o
                  (IF n = 3 THEN caught
                   ELSE <<"title", "afterEnter">> \o
                        (IF n = 4 THEN caught
                         ELSE <<"afterEnter:done">> \o
                              (IF updateHistory THEN <<"addToHistory">>
                               ELSE <<>>) \o
                              <<"navigation:complete", "navigation:change">>)))

\* navigate(section, updateHistory) from its first line to the first suspension:
\* unknown route -> false; otherwise emit navigation:start, call beforeEnter
\* (animateOut of the current section, a 300 ms timer) and suspend.
\* Gives the new pending queue and the record of the step.
navigateStart(rts, cur, pend, section, updateHistory) ==
    IF ~hasRoute(rts, section)
    THEN [pending |-> pend,
          step |-> [NoStep EXCEPT !.op = "navigate", !.to = section,
                                  !.ret = "false"]]
    ELSE [pending |-> Append(pend, [from |-> cur, to |-> section,
                                    upd |-> updateHistory,
                                    trace |-> navigateBegin]),
          step |-> [NoStep EXCEPT !.op = "navigate", !.to = section,
                                  !.ret = "suspended",
                                  !.emitted = SelectSeq(navigateBegin,
                                      LAMBDA x : x = "navigation:start"),
                                  !.trace = navigateBegin]]

Recorded == Len(history) + Cardinality({i \in 1..Len(pending) : pending[i].upd})
MayRecord == Recorded < MaxRecorded
MaySuspend == Len(pending) < MaxPending

\* Router.init: registerDefaultRoutes, setupEventListeners, handleInitialRoute
RouterInit ==
    /\ routes = {}
    /\ routes' = regions
    /\ LET initialSection == IF locHash # "" /\ hasRoute(routes', locHash)
                             THEN locHash ELSE "home"
           r == navigateStart(routes', currentSection, pending, initialSection,
                              FALSE)
       IN /\ pending' = r.pending
          /\ step' = [r.step EXCEPT !.op = "init", !.to = ""]
    /\ UNCHANGED <<currentSection, history, active, activeLinks, docTitle, locHash,
                   backExpect>>

\* window.Router.init() called on its own
RouterInitCall ==
    /\ RouterInit
    /\ UNCHANGED routerRest

\* navigate(section, updateHistory) called by the page: a click on a
\* [data-section] element or the CTA button (updateHistory = true), a popstate
\* event (updateHistory = false), or a programmatic call
Navigate(section, updateHistory) ==
    /\ hasRoute(routes, section) => (MaySuspend /\ (updateHistory => MayRecord))
    /\ LET r == navigateStart(routes, currentSection, pending, section,
                              updateHistory)
       IN /\ pending' = r.pending
          /\ step' = r.step
    /\ UNCHANGED <<routes, currentSection, history, active, activeLinks, docTitle,
                   locHash, backExpect>>
    /\ UNCHANGED routerRest

\* the address bar's fragment changes and handleHashChange runs
HandleHashChange(hash) ==
    /\ routes # {}
    /\ hash # locHash
    /\ locHash' = hash
    /\ IF hash # "" /\ hasRoute(routes, hash) /\ hash # currentSection
       THEN /\ MaySuspend
            /\ LET r == navigateStart(routes, currentSection, pending, hash,
                                      FALSE)
               IN /\ pending' = r.pending
                  /\ step' = [r.step EXCEPT !.op = "hashchange", !.to = ""]
       ELSE /\ pending' = pending
            /\ step' = [NoStep EXCEPT !.op = "hashchange"]
    /\ UNCHANGED <<routes, currentSection, history, active, activeLinks, docTitle,
                   backExpect>>
    /\ UNCHANGED routerRest

\* the 300 ms timer of the oldest suspended navigate fires: the rest of
\* navigate runs to its return (the await of afterEnter yields to microtasks
\* only, and animateIn sets styles only), or up to the statement that throws
\* and from there through the catch
NavigateResume(fault) ==
    /\ pending # <<>>
    /\ LET c == Head(pending)
           n == failAt(fault)
           u == IF c.upd THEN updateURL(locHash, c.to)
                ELSE [hash |-> locHash, pushed |-> FALSE]
           rest == navigateRest(c.upd, fault)
       IN /\ fault = "pushState" => u.pushed
          /\ currentSection' = IF n > 1 THEN c.to ELSE currentSection
          /\ locHash' = IF n > 2 THEN u.hash ELSE locHash
          /\ activeLinks' = IF n > 2 THEN updateNavigation(activeLinks, c.to)
                            ELSE activeLinks
          /\ active' = IF n > 2 THEN showSection(active, c.to) ELSE active
          /\ docTitle' = IF n > 3 THEN c.to ELSE docTitle
          /\ history' = IF n > 4 /\ c.upd
                        THEN addToHistory(history, c.from, c.to)
                        ELSE history
          /\ step' = [NoStep EXCEPT !.op = "resume", !.to = c.to,
                                    !.ret = IF n > 4 THEN "true" ELSE "false",
                                    !.emitted = SelectSeq(rest,
                                        LAMBDA x : x \in {"navigation:complete",
                                                          "navigation:change",
                                                          "navigation:error"}),
                                    !.expect = IF n > 4 THEN backExpect ELSE "",
                                    !.trace = c.trace \o rest]
    /\ pending' = Tail(pending)
    /\ backExpect' = ""
    /\ UNCHANGED routes
    /\ UNCHANGED routerRest

\* Router.goBack. For a goBack made while the router is at rest (no navigate
\* suspended) on the section recorded last, backExpect notes, until that
\* goBack's navigation resumes, the section that was current before the most
\* recent recorded navigation.
GoBack ==
    /\ IF Len(history) > 1
       THEN /\ MaySuspend
            /\ LET previous == history[Len(history) - 1]
                   recent == history[Len(history)]
                   expect == IF /\ pending = <<>>
                                /\ recent.to = currentSection
                                /\ previous.to = recent.from
                                /\ previous.from # previous.to
                                /\ recent.from # recent.to
                             THEN recent.from ELSE ""
                   r == navigateStart(routes, currentSection, pending,
                                      previous.from, FALSE)
               IN /\ pending' = r.pending
                  /\ backExpect' = IF pending = <<>> THEN expect ELSE backExpect
                  /\ step' = [r.step EXCEPT !.op = "goBack", !.to = "",
                                            !.ret = "true"]
            /\ history' = SpliceLast2(history)
       ELSE IF currentSection # "home"
       THEN /\ hasRoute(routes, "home") => (MaySuspend /\ MayRecord)
            /\ LET r == navigateStart(routes, currentSection, pending, "home",
                                      TRUE)
               IN /\ pending' = r.pending
                  /\ step' = [r.step EXCEPT !.op = "goBack", !.to = "",
                                            !.ret = "true"]
            /\ history' = history
            /\ backExpect' = backExpect
       ELSE /\ pending' = pending
            /\ history' = history
            /\ backExpect' = backExpect
            /\ step' = [NoStep EXCEPT !.op = "goBack", !.ret = "false"]
    /\ UNCHANGED <<routes, currentSection, active, activeLinks, docTitle, locHash>>
    /\ UNCHANGED routerRest

RouterNext ==
    \/ RouterInitCall
    \/ \E s \in NavTargets, u \in BOOLEAN : Navigate(s, u)
    \/ \E h \in HashInputs : HandleHashChange(h)
    \/ \E f \in Faults : NavigateResume(f)
    \/ GoBack

\* the section whose link follows that of cur in the navigation bar (the first
\* after the last)
NextSection(cur) ==
    LET i == CHOOSE k \in 1..Len(sections) : sections[k] = cur
    IN sections[(i % Len(sections)) + 1]

\* a visitor who goes through the sections in turn: with no transition under
\* way, a click on the link that follows the current section's
NavigateInTurn ==
    /\ routes # {}
    /\ pending = <<>>
    /\ LET r == navigateStart(routes, currentSection, pending,
                              NextSection(currentSection), TRUE)
       IN /\ pending' = r.pending
          /\ step' = r.step
    /\ UNCHANGED <<routes, currentSection, history, active, activeLinks, docTitle,
                   locHash, backExpect>>
    /\ UNCHANGED routerRest

\* goBack called between transitions with two records or more to go back over
GoBackAtRest ==
    /\ pending = <<>>
    /\ Len(history) > 1
    /\ GoBack

\* the router under that visitor, with no navigation failing, for as long as
\* it takes to fill the history
HistoryNext ==
    \/ RouterInitCall
    \/ NavigateInTurn
    \/ NavigateResume("none")
    \/ GoBackAtRest

\* what the page's markup may mark visible before the router acts, and the
\* markup of a page on which nothing is marked
Markups == {{}, {"home"}, regions}
BlankMarkup == {{}}

\* ========================================================= YamlConfigService
\* ------------------------------------------------------------------ bounds
\* loadConfig calls made over a run of the service
MaxCalls == 5

\* ---- configuration values
\* A value is [kind, val, kids]: kind "null", "scalar" (val: the string),
\* "number" and "boolean" (val: the value as printed), "array" and "date" (val:
\* what they hold), "map" (kids: own enumerable keys -> values). typeof is
\* "object" for null, array, date and map; only array is Array.isArray; null,
\* "", 0 and false are falsy.
NoKids == [x \in {} |-> 0]
Null == [kind |-> "null", val |-> "", kids |-> NoKids]
Scalar(str) == [kind |-> "scalar", val |-> str, kids |-> NoKids]
Array(c) == [kind |-> "array", val |-> c, kids |-> NoKids]
Date(c) == [kind |-> "date", val |-> c, kids |-> NoKids]
Number(printed) == [kind |-> "number", val |-> printed, kids |-> NoKids]
Boolean(printed) == [kind |-> "boolean", val |-> printed, kids |-> NoKids]
Map(f) == [kind |-> "map", val |-> "", kids |-> f]
EmptyObject == Map(NoKids)

Truthy(v) == ~(\/ v.kind = "null"
               \/ (v.kind = "scalar" /\ v.val = "")
               \/ (v.kind = "number" /\ v.val = "0")
               \/ (v.kind = "boolean" /\ v.val = "false"))
TypeofObject(v) == v.kind \in {"null", "array", "date", "map"}
IsArray(v) == v.kind = "array"
\* own enumerable string keys: what for...in and object spread see
OwnKeys(v) == IF v.kind = "map" THEN DOMAIN v.kids ELSE {}

\* all mappings from a subset of keys to values of vals
MapsOver(keys, vals) ==
    UNION {[sub -> vals] : sub \in SUBSET keys}

\* ---- inputs: the JavaScript configuration and the loaded document.
\* Leaves of the two sides are different values, so that the side a merged
\* value came from shows.
LeafKeys == {"title", "date"}
TopKeys == {"event", "rsvp"}
JsLeaves == {Scalar("js"), Array("js-list")}
YamlLeaves == {Null, Scalar("yaml"), Array("yaml-list"), Date("yaml-date")}
JsLevel1 == {Map(f) : f \in MapsOver(LeafKeys, JsLeaves)}
YamlLevel1 == {Map(f) : f \in MapsOver(LeafKeys, YamlLeaves)}
JsConfigs == {Map(f) : f \in MapsOver(TopKeys, JsLeaves \cup JsLevel1)}
YamlDocs == {Map(f) : f \in MapsOver(TopKeys, YamlLeaves \cup YamlLevel1)}

NoConfig == [id |-> 0, doc |-> Null]
HasConfig(c) == c.id # 0

\* ---- _deepMerge
RECURSIVE deepMerge(_, _)
\* YamlConfigService._deepMerge(target, source)
deepMerge(target, source) ==
    LET spread == OwnKeys(target)
        keys == spread \cup OwnKeys(source)
        recurse(key) ==
            /\ Truthy(source.kids[key])
            /\ TypeofObject(source.kids[key])
            /\ ~IsArray(source.kids[key])
            /\ key \in spread
            /\ Truthy(target.kids[key])
            /\ TypeofObject(target.kids[key])
            /\ ~IsArray(target.kids[key])
    IN Map([key \in keys |->
              IF key \in OwnKeys(source)
              THEN IF recurse(key)
                   THEN deepMerge(target.kids[key], source.kids[key])
                   ELSE source.kids[key]
              ELSE target.kids[key]])

\* YamlConfigService.mergeWithJsConfig(jsConfig)
mergeWithJsConfig(cfg, js) ==
    IF ~HasConfig(cfg) THEN js ELSE deepMerge(js, cfg.doc)

\* ---- get and the placeholder fallbacks
\* the characters of the key names and keywords that occur
Chars(word) ==
    CASE word = "event" -> <<"e", "v", "e", "n", "t">>
      [] word = "title" -> <<"t", "i", "t", "l", "e">>
      [] word = "subtitle" -> <<"s", "u", "b", "t", "i", "t", "l", "e">>
      [] word = "date" -> <<"d", "a", "t", "e">>
      [] word = "location" -> <<"l", "o", "c", "a", "t", "i", "o", "n">>
      [] word = "organizer" -> <<"o", "r", "g", "a", "n", "i", "z", "e", "r">>
      [] word = "name" -> <<"n", "a", "m", "e">>
      [] word = "email" -> <<"e", "m", "a", "i", "l">>
      [] word = "phone" -> <<"p", "h", "o", "n", "e">>
      [] word = "dresscode" -> <<"d", "r", "e", "s", "s", "c", "o", "d", "e">>
      [] word = "dining" -> <<"d", "i", "n", "i", "n", "g">>
      [] word = "heroImage" -> <<"h", "e", "r", "o", "I", "m", "a", "g", "e">>
      [] word = "heroimage" -> <<"h", "e", "r", "o", "i", "m", "a", "g", "e">>
      [] word = "rsvp" -> <<"r", "s", "v", "p">>
      [] word = "deadline" -> <<"d", "e", "a", "d", "l", "i", "n", "e">>
      [] word = "theme" -> <<"t", "h", "e", "m", "e">>

\* String.prototype.toLowerCase on the characters that occur
LowerChar(c) == IF c = "I" THEN "i" ELSE c
toLowerCase(str) == [i \in 1..Len(str) |-> LowerChar(str[i])]

\* String.prototype.includes
includes(str, search) ==
    \E i \in 0..(Len(str) - Len(search)) :
        SubSeq(str, i + 1, i + Len(search)) = search

\* the path string of a key sequence: keys joined by "." (the inverse of
\* path.split('.'))
RECURSIVE PathString(_)
PathString(keys) ==
    IF Len(keys) = 1 THEN Chars(keys[1])
    ELSE Chars(keys[1]) \o <<".">> \o PathString(Tail(keys))

\* a caller's fallback argument; Null is the parameter's default
NoFallback == Null

\* YamlConfigService._getGracefulFallback(path, fallback)
getGracefulFallback(keys, fallback) ==
    IF fallback # Null THEN fallback
    ELSE LET pathLower == toLowerCase(PathString(keys))
             has(word) == includes(pathLower, Chars(word))
         IN IF has("title") THEN Scalar("Event Title - Please Update Config")
            ELSE IF has("subtitle")
            THEN Scalar("Please update your event details in config.yaml")
            ELSE IF has("date") THEN Scalar("Date TBD - Please Update Config")
            ELSE IF has("location")
            THEN Scalar("Location TBD - Please Update Config")
            ELSE IF has("name") THEN Scalar("Name TBD")
            ELSE IF has("email") THEN Scalar("email@example.com")
            ELSE IF has("phone") THEN Scalar("+1 (555) 000-0000")
            ELSE IF has("dresscode") THEN Scalar("Dress code TBD")
            ELSE IF has("dining") THEN Scalar("Dining details TBD")
            ELSE IF has("heroimage") THEN Scalar("placeholder-hero.svg")
            ELSE Scalar("Please update config.yaml")

\* key in current, for the values modelled (own keys; an array or a date has
\* none of the key names used here)
KeyIn(key, current) == key \in OwnKeys(current)

RECURSIVE getWalk(_, _, _, _)
\* the loop of get over the keys from position i on; the last value is
\* returned unchecked
getWalk(current, keys, i, missing) ==
    IF i > Len(keys) THEN current
    ELSE IF Truthy(current) /\ TypeofObject(current) /\ KeyIn(keys[i], current)
         THEN getWalk(current.kids[keys[i]], keys, i + 1, missing)
         ELSE missing

\* get with the check of the leaf left out: a null leaf is returned as it is
getWithoutLeafCheck(cfg, keys, fallback) ==
    IF ~HasConfig(cfg) THEN getGracefulFallback(keys, fallback)
    ELSE getWalk(cfg.doc, keys, 1, getGracefulFallback(keys, fallback))

\* YamlConfigService.get(path, fallback)
get(cfg, keys, fallback) ==
    IF ~HasConfig(cfg) THEN getGracefulFallback(keys, fallback)
    ELSE LET current == getWalk(cfg.doc, keys, 1,
                                getGracefulFallback(keys, fallback))
         IN IF current = Null THEN getGracefulFallback(keys, fallback)
            ELSE current

\* YamlConfigService.validateConfig(requiredFields): the fields for which
\* this.get(field) === null, in the order given
validateConfig(cfg, requiredFields) ==
    SelectSeq(requiredFields, LAMBDA field : get(cfg, field, NoFallback) = Null)

\* paths callers ask for: present and absent keys, leaves and mappings
Paths == {<<"event">>, <<"event", "title">>, <<"event", "date">>,
          <<"event", "subtitle">>, <<"event", "title", "date">>,
          <<"rsvp">>, <<"rsvp", "deadline">>, <<"organizer", "email">>,
          <<"event", "heroImage">>, <<"theme">>, <<"event", "location">>,
          <<"organizer", "name">>, <<"organizer", "phone">>,
          <<"event", "dresscode">>, <<"event", "dining">>}

\* ---- loadConfig
\* documents a successful fetch may parse to
SampleDoc == Map([k \in {"event"} |-> Map([l \in {"title"} |-> Scalar("yaml")])])

ParsedDocs == {EmptyObject, SampleDoc}

\* if (this.loadPromise), answering no whatever the field holds
inFlightIgnored(lp) == FALSE

\* if (this.loadPromise): a load was started and has not failed
inFlight(lp) == lp # 0

\* calls[i]: src the fetch whose outcome the returned promise takes (0: none),
\* result 0 while pending, -1 rejected, else the id of the object received;
\* owner: the call that started the fetch; late: made when a load had succeeded
Call(src, result, owner, late) ==
    [src |-> src, result |-> result, owner |-> owner, late |-> late]

\* loadConfig(), up to its first suspension or return
LoadConfig ==
    /\ Len(calls) < MaxCalls
    /\ cpc' = "load"
    /\ IF inFlight(loadPromise)
       THEN /\ calls' = Append(calls,
                   Call(loadPromise,
                        IF fetches[loadPromise] = "ok" THEN loadPromise
                        ELSE IF fetches[loadPromise] = "failed" THEN 0 - 1 ELSE 0,
                        FALSE, isLoaded))
            /\ UNCHANGED <<fetches, loadPromise>>
       ELSE IF isLoaded /\ HasConfig(config)
       THEN /\ calls' = Append(calls, Call(0, config.id, FALSE, TRUE))
            /\ UNCHANGED <<fetches, loadPromise>>
       ELSE /\ fetches' = Append(fetches, "pending")
            /\ loadPromise' = Len(fetches) + 1
            /\ calls' = Append(calls, Call(Len(fetches) + 1, 0, TRUE, FALSE))
    /\ UNCHANGED <<config, isLoaded, jsConfig, merged, path, got>>
    /\ UNCHANGED <<reloaded, cfgRest>>

\* the promise of _fetchAndParseYaml settles: the call that started it resumes
\* after its await (stores the object, or clears loadPromise and rethrows), and
\* the promises handed to the other callers settle the same way
FetchSettles(f, ok, doc) ==
    /\ f \in 1..Len(fetches)
    /\ fetches[f] = "pending"
    /\ cpc' = "settled"
    /\ fetches' = [fetches EXCEPT ![f] = IF ok THEN "ok" ELSE "failed"]
    /\ calls' = [i \in 1..Len(calls) |->
                   IF calls[i].src = f /\ calls[i].result = 0
                   THEN [calls[i] EXCEPT !.result = IF ok THEN f ELSE 0 - 1]
                   ELSE calls[i]]
    /\ IF ok
       THEN /\ config' = [id |-> f, doc |-> doc]
            /\ isLoaded' = TRUE
            /\ UNCHANGED loadPromise
       ELSE /\ loadPromise' = 0
            /\ UNCHANGED <<config, isLoaded>>
    /\ UNCHANGED <<jsConfig, merged, path, got>>
    /\ UNCHANGED <<reloaded, cfgRest>>

\* reloadConfig(): forgets the cached object and the promise, then calls
\* loadConfig, which starts a fetch whatever is in flight
ReloadConfig ==
    /\ Len(calls) < MaxCalls
    /\ cpc' = "reload"
    /\ fetches' = Append(fetches, "pending")
    /\ loadPromise' = Len(fetches) + 1
    /\ calls' = Append(calls, Call(Len(fetches) + 1, 0, TRUE, FALSE))
    /\ reloaded' = Append(reloaded, Len(fetches) + 1)
    /\ config' = NoConfig
    /\ isLoaded' = FALSE
    /\ UNCHANGED <<jsConfig, merged, path, got>>
    /\ UNCHANGED cfgRest

CfgLoadNext ==
    \/ LoadConfig
    \/ \E f \in 1..MaxCalls, doc \in ParsedDocs : FetchSettles(f, TRUE, doc)
    \/ \E f \in 1..MaxCalls : FetchSettles(f, FALSE, EmptyObject)

\* loads and reloads in any interleaving with the fetches settling
CfgReloadNext ==
    \/ LoadConfig
    \/ ReloadConfig
    \/ \E f \in 1..MaxCalls, doc \in ParsedDocs : FetchSettles(f, TRUE, doc)
    \/ \E f \in 1..MaxCalls : FetchSettles(f, FALSE, EmptyObject)

\* ---- the pure functions, applied to inputs drawn at the start
NotLoaded == {NoConfig}
LoadedDocs == {[id |-> 1, doc |-> d] : d \in YamlDocs \cup {EmptyObject}}

\* mergeWithJsConfig(jsConfig) on the drawn inputs
MergeWithJsConfig ==
    /\ cpc = "init"
    /\ merged' = mergeWithJsConfig(config, jsConfig)
    /\ cpc' = "merged"
    /\ UNCHANGED <<config, isLoaded, loadPromise, fetches, calls, jsConfig, path, got>>
    /\ UNCHANGED <<reloaded, cfgRest>>

\* get(path) and get(path, fallback)
Get(fallback) ==
    /\ cpc = "init"
    /\ got' = get(config, path, fallback)
    /\ cpc' = IF fallback = NoFallback THEN "get" ELSE "getWithFallback"
    /\ UNCHANGED <<config, isLoaded, loadPromise, fetches, calls, jsConfig, merged,
                   path>>
    /\ UNCHANGED <<reloaded, cfgRest>>

\* the required fields callers pass besides the drawn path
RequiredFields == {<<"event", "title">>, <<"rsvp", "deadline">>}

\* validateConfig(requiredFields) with the drawn path first; got keeps the
\* argument and the array returned
ValidateConfig(others) ==
    /\ cpc = "init"
    /\ LET requiredFields == <<path>> \o others
       IN got' = [fields |-> requiredFields,
                  missing |-> validateConfig(config, requiredFields)]
    /\ cpc' = "validateConfig"
    /\ UNCHANGED <<config, isLoaded, loadPromise, fetches, calls, jsConfig, merged,
                   path>>
    /\ UNCHANGED <<reloaded, cfgRest>>

MergeNext == MergeWithJsConfig

GetNext ==
    \/ \E fb \in {NoFallback, Scalar("caller")} : Get(fb)
    \/ \E others \in {<<>>} \cup {<<f>> : f \in RequiredFields} : ValidateConfig(others)

\* ============================================================ StorageService
\* ------------------------------------------------------------------ bounds
\* the clock runs from 1 to MaxTime; expiry times are taken from 0..MaxTime
MaxTime == 3

\* keys and values callers store (app_theme is the key App.setTheme uses)
StorageKeys == {"app_theme", "user_preferences"}
StoredValues == {"a", "b"}
\* the defaultValue a caller of getItem passes
Fallback == "fallback"
\* options.expires when the caller gives none (undefined), and the null the
\* stored data then holds
NoExpires == 0 - 1
ExpiresInputs == {NoExpires} \cup (0..MaxTime)

\* localStorage holds no text under the key
NoItem == [present |-> FALSE, value |-> "", timestamp |-> 0, expires |-> NoExpires]

\* options.expires || null: every falsy value, 0 included, becomes null
expiresOrNull(expires) == IF expires = NoExpires \/ expires = 0 THEN NoExpires
                          ELSE expires

\* the data object setItem builds (version is never read back)
StorageData(value, t, expires) ==
    [present |-> TRUE, value |-> value, timestamp |-> t,
     expires |-> expiresOrNull(expires)]

\* JSON.stringify of the data object, and JSON.parse of the text: strings and
\* finite numbers come back as they were, null stays null
stringify(data) == [json |-> data]
parse(text) == text.json

\* data.expires && Date.now() > data.expires
isExpired(data, t) == data.expires # NoExpires /\ data.expires # 0 /\ t > data.expires

\* for getItem, expires, past and saved tell of the setItem of the same key that
\* the call follows directly (past: its expiry time was earlier than the clock)
NoSop == [op |-> "none", key |-> "", ret |-> "", expires |-> NoExpires,
          past |-> FALSE, saved |-> FALSE]

\* time passes
Tick ==
    /\ now < MaxTime
    /\ now' = now + 1
    /\ UNCHANGED <<storage, isAvailable, sop>>
    /\ UNCHANGED storRest

\* setItem(key, value, {expires}); fits: localStorage.setItem does not throw
\* (it throws when the quota is exceeded)
SetItem(key, value, expires, fits) ==
    /\ sop' = [op |-> "setItem", key |-> key,
               ret |-> IF isAvailable /\ fits THEN "true" ELSE "false",
               expires |-> expires,
               past |-> (expires # NoExpires /\ expires < now),
               saved |-> (isAvailable /\ fits)]
    /\ storage' = IF isAvailable /\ fits
                  THEN [storage EXCEPT
                           ![key] = stringify(StorageData(value, now, expires))]
                  ELSE storage
    /\ UNCHANGED <<isAvailable, now>>
    /\ UNCHANGED storRest

\* getItem(key, Fallback)
GetItem(key) ==
    /\ LET stored == storage[key]
           expired == /\ isAvailable
                      /\ stored # stringify(NoItem)
                      /\ isExpired(parse(stored), now)
           follows == sop.op = "setItem" /\ sop.key = key
       IN /\ sop' = [NoSop EXCEPT
                        !.op = "getItem", !.key = key,
                        !.expires = IF follows THEN sop.expires ELSE NoExpires,
                        !.past = follows /\ sop.past,
                        !.saved = follows /\ sop.saved,
                        !.ret = IF ~isAvailable \/ stored = stringify(NoItem)
                                   \/ expired
                                THEN Fallback ELSE parse(stored).value]
          /\ storage' = IF expired THEN [storage EXCEPT ![key] = stringify(NoItem)]
                        ELSE storage
    /\ UNCHANGED <<isAvailable, now>>
    /\ UNCHANGED storRest

\* removeItem(key)
RemoveItem(key) ==
    /\ sop' = [NoSop EXCEPT !.op = "removeItem", !.key = key,
                            !.ret = IF isAvailable THEN "true" ELSE "false"]
    /\ storage' = IF isAvailable THEN [storage EXCEPT ![key] = stringify(NoItem)]
                  ELSE storage
    /\ UNCHANGED <<isAvailable, now>>
    /\ UNCHANGED storRest

\* clear(): every key with the app's prefix
StorageClear ==
    /\ sop' = [NoSop EXCEPT !.op = "clear",
                            !.ret = IF isAvailable THEN "true" ELSE "false"]
    /\ storage' = IF isAvailable THEN [k \in StorageKeys |-> stringify(NoItem)]
                  ELSE storage
    /\ UNCHANGED <<isAvailable, now>>
    /\ UNCHANGED storRest

StorageNext ==
    \/ Tick
    \/ \E k \in StorageKeys, v \in StoredValues, e \in ExpiresInputs, f \in BOOLEAN :
          SetItem(k, v, e, f)
    \/ \E k \in StorageKeys : GetItem(k)
    \/ \E k \in StorageKeys : RemoveItem(k)
    \/ StorageClear


\* ============================================================= RSVPComponent
\* fields of #rsvp-form, each in a .form-group of its own: a text field and
\* the three fields validateForm knows by id, and the texts a visitor may leave
\* in each
Fields == {"guestName", "guest-email", "guest-phone", "guest-count"}
FieldInputs ==
    [f \in Fields |->
        CASE f = "guestName" -> {"", " ", "Ann"}
          [] f = "guest-email" -> {"", "ann@example.org", "ann"}
          [] f = "guest-phone" -> {"", "5551234567", "12"}
          [] f = "guest-count" -> {"", "2", "0"}]
\* the required attributes the page's markup may give the fields
RequiredSets == {{}, {"guestName"}, {"guestName", "guest-email"}, Fields}

\* String.prototype.trim on the texts above
trim(v) == IF v = " " THEN "" ELSE v
\* /^[^\s@]+@[^\s@]+\.[^\s@]+$/.test(email) on the texts above
isValidEmail(v) == v = "ann@example.org"
\* the phone pattern and the length test on the texts above
isValidPhone(v) == v = "5551234567"
\* parseInt on the texts above
parseInt(v) == CASE v = "2" -> 2 [] v = "0" -> 0 [] OTHER -> 0 - 1

\* validateField with the text taken as it is, not trimmed
validateFieldUntrimmed(req, field, v) == field \notin req \/ v # ""

\* RSVPComponent.validateField(field): TRUE when the field passes
validateField(req, field, v) == field \notin req \/ trim(v) # ""

\* RSVPComponent.validateForm: the fields marked after clearAllErrors and the
\* value returned
validateForm(req, vals) ==
    LET missing == {f \in req : ~validateField(req, f, vals[f])}
        email == IF vals["guest-email"] # "" /\ ~isValidEmail(vals["guest-email"])
                 THEN {"guest-email"} ELSE {}
        phone == IF vals["guest-phone"] # "" /\ ~isValidPhone(vals["guest-phone"])
                 THEN {"guest-phone"} ELSE {}
        count == IF /\ vals["guest-count"] # ""
                    /\ (parseInt(vals["guest-count"]) < 1
                           \/ parseInt(vals["guest-count"]) > 10)
                 THEN {"guest-count"} ELSE {}
        marked == missing \cup email \cup phone \cup count
    IN [errors |-> marked, isValid |-> marked = {}]

\* email-service calls a form may have unanswered at a time
MaxRequests == 2

\* this.formData = {}
NoFormData == [f \in {} |-> ""]

\* sent: the email service was called; saved: the backup was written to local
\* storage; event: the form event published
NoFop == [op |-> "none", sent |-> FALSE, saved |-> FALSE, event |-> ""]

\* if (this.isSubmitting), answering no whatever the flag holds
neverSubmitting(flag) == FALSE

\* if (this.isSubmitting) return, first statement of both forms' handleFormSubmit
alreadySubmitting(flag) == flag

\* the visitor types into a field: the input listener clears its error
Input(field, v) ==
    /\ v # values[field]
    /\ values' = [values EXCEPT ![field] = v]
    /\ errors' = errors \ {field}
    /\ fop' = [NoFop EXCEPT !.op = "input"]
    /\ UNCHANGED <<required, isSubmitting, formData, emailConfigured, requests>>
    /\ UNCHANGED formRest

\* the visitor leaves a field: the blur listener validates it
Blur(field) ==
    /\ errors' = IF field \notin required THEN errors
                 ELSE IF validateField(required, field, values[field])
                 THEN errors \ {field} ELSE errors \cup {field}
    /\ fop' = [NoFop EXCEPT !.op = "blur"]
    /\ UNCHANGED <<required, values, isSubmitting, formData, emailConfigured,
                   requests>>
    /\ UNCHANGED formRest

\* handleFormSubmit(event), with submitForm up to its await
HandleFormSubmit ==
    /\ Len(requests) < MaxRequests
    /\ IF alreadySubmitting(isSubmitting)
       THEN /\ fop' = [NoFop EXCEPT !.op = "submit"]
            /\ UNCHANGED <<errors, isSubmitting, formData, requests>>
       ELSE LET v == validateForm(required, values)
            IN /\ formData' = values
               /\ errors' = v.errors
               /\ isSubmitting' = (v.isValid /\ emailConfigured)
               /\ requests' = IF v.isValid /\ emailConfigured
                              THEN Append(requests, values) ELSE requests
               /\ fop' = [NoFop EXCEPT
                            !.op = "submit",
                            !.sent = v.isValid /\ emailConfigured,
                            !.event = IF v.isValid /\ ~emailConfigured
                                      THEN "form:error" ELSE ""]
    /\ UNCHANGED <<required, values, emailConfigured>>
    /\ UNCHANGED formRest

\* the email service answers: submitForm resumes after its await
SubmitSettles(ok) ==
    /\ requests # <<>>
    /\ requests' = Tail(requests)
    /\ isSubmitting' = FALSE
    /\ fop' = [NoFop EXCEPT !.op = "settled", !.saved = ok,
                            !.event = IF ok THEN "form:success" ELSE "form:error"]
    /\ UNCHANGED <<required, values, errors, formData, emailConfigured>>
    /\ UNCHANGED formRest

FormNext ==
    \/ \E f \in Fields : \E v \in FieldInputs[f] : Input(f, v)
    \/ \E f \in Fields : Blur(f)
    \/ HandleFormSubmit
    \/ \E ok \in BOOLEAN : SubmitSettles(ok)

\* ========================================================== ContactComponent
\* (its init is taken to have attached the handlers: the page has no
\* #organizer-phone element, on which updateFromConfig would throw)
\* fields of #contact-form, all three required in the markup, and the texts a
\* visitor may leave in each
ContactFields == {"contactName", "contact-email", "contact-message"}
ContactInputs ==
    [f \in ContactFields |->
        CASE f = "contactName" -> {"", "Ann", "Bob"}
          [] f = "contact-email" -> {"", "ann@example.org"}
          [] f = "contact-message" -> {"", "Hi", "See you there"}]
\* messageField.value.length < 10 on the texts above
tooShort(v) == v = "Hi"

\* ContactComponent.validateForm: the fields marked after clearAllErrors and
\* the value returned
contactValidateForm(vals) ==
    LET missing == {f \in ContactFields : trim(vals[f]) = ""}
        email == IF vals["contact-email"] # "" /\ ~isValidEmail(vals["contact-email"])
                 THEN {"contact-email"} ELSE {}
        message == IF vals["contact-message"] # "" /\ tooShort(vals["contact-message"])
                   THEN {"contact-message"} ELSE {}
        marked == missing \cup email \cup message
    IN [errors |-> marked, isValid |-> marked = {}]

\* form.reset()
BlankForm == [f \in ContactFields |-> ""]

\* op: the handler that ran; sent: it called the email service; saved: the
\* object handed to saveContactMessage; event, data: the form event published
NoContactOp == [op |-> "none", sent |-> FALSE, saved |-> NoFormData, event |-> "",
                data |-> NoFormData]

\* the component after its constructor and init, the form as the page has it
NewContact == [values |-> BlankForm, errors |-> {}, formData |-> NoFormData,
               isSubmitting |-> FALSE, requests |-> <<>>, timers |-> 0,
               op |-> NoContactOp]

\* pending resetForm timers at a time
MaxTimers == 2

\* the visitor types into a field of the contact form
ContactInput(field, v) ==
    /\ v # contact.values[field]
    /\ contact' = [contact EXCEPT !.values[field] = v,
                                  !.errors = @ \ {field},
                                  !.op = [NoContactOp EXCEPT !.op = "input"]]
    /\ UNCHANGED formVars
    /\ UNCHANGED contactRest

\* ContactComponent.handleFormSubmit(event), with submitForm up to its await
ContactHandleFormSubmit ==
    /\ Len(contact.requests) < MaxRequests
    /\ IF alreadySubmitting(contact.isSubmitting)
       THEN contact' = [contact EXCEPT !.op = [NoContactOp EXCEPT !.op = "submit"]]
       ELSE LET v == contactValidateForm(contact.values)
                collected == contact.values
            IN IF ~v.isValid
               THEN contact' = [contact EXCEPT
                       !.formData = collected, !.errors = v.errors,
                       !.op = [NoContactOp EXCEPT !.op = "submit"]]
               ELSE IF ~emailConfigured
               THEN contact' = [contact EXCEPT
                       !.formData = collected, !.errors = v.errors,
                       !.op = [NoContactOp EXCEPT !.op = "submit",
                                                  !.event = "form:error",
                                                  !.data = collected]]
               ELSE contact' = [contact EXCEPT
                       !.formData = collected, !.errors = v.errors,
                       !.isSubmitting = TRUE,
                       !.requests = Append(@, collected),
                       !.op = [NoContactOp EXCEPT !.op = "submit", !.sent = TRUE]]
    /\ UNCHANGED formVars
    /\ UNCHANGED contactRest

\* the email service answers: submitForm resumes after its await; on success
\* it saves this.formData, starts the 3 s resetForm timer and publishes
\* form:success with this.formData
ContactSubmitSettles(ok) ==
    /\ contact.requests # <<>>
    /\ ok => contact.timers < MaxTimers
    /\ contact' = [contact EXCEPT
          !.requests = Tail(@),
          !.isSubmitting = FALSE,
          !.timers = IF ok THEN @ + 1 ELSE @,
          !.op = [NoContactOp EXCEPT
                    !.op = "settled",
                    !.saved = IF ok THEN contact.formData ELSE NoFormData,
                    !.event = IF ok THEN "form:success" ELSE "form:error",
                    !.data = contact.formData]]
    /\ UNCHANGED formVars
    /\ UNCHANGED contactRest

\* a resetForm timer fires: ContactComponent.resetForm
ContactResetForm ==
    /\ contact.timers > 0
    /\ contact' = [contact EXCEPT
          !.timers = @ - 1,
          !.values = BlankForm,
          !.errors = {},
          !.formData = NoFormData,
          !.op = [NoContactOp EXCEPT !.op = "reset"]]
    /\ UNCHANGED formVars
    /\ UNCHANGED contactRest

ContactNext ==
    \/ \E f \in ContactFields : \E v \in ContactInputs[f] : ContactInput(f, v)
    \/ ContactHandleFormSubmit
    \/ \E ok \in BOOLEAN : ContactSubmitSettles(ok)
    \/ ContactResetForm

\* ============================================================ TemplateEngine
\* ------------------------------------------------------------------ bounds
\* the longest configured list
MaxItems == 2

\* the list-shaped sections: #schedule-timeline, #gallery-grid, the
\* .form-fields of #rsvp-form, .contact-methods
ListSections == {"schedule", "gallery", "rsvp", "contact"}
\* config.schedule, config.gallery.images, config.rsvp.fields or
\* config.contact.methods when the configuration has no such entry
Absent == 0 - 1
ListInputs == {Absent} \cup (0..MaxItems)

\* getDefaultSchedule, getDefaultGalleryImages, getDefaultRSVPFields,
\* getDefaultContactMethods: the number of entries of the built-in list
DefaultLength(section) ==
    CASE section = "schedule" -> 1 [] section = "gallery" -> 1
      [] section = "rsvp" -> 3 [] section = "contact" -> 1

\* configured || default: an absent list gives way to the built-in one, a
\* list, also an empty one, is truthy and stays
orDefault(list, section) ==
    IF list = Absent THEN DefaultLength(section) ELSE list

\* what a container holds: rendered entries and, or, a placeholder block
Content(items, placeholder) == [items |-> items, placeholder |-> placeholder]
\* container.innerHTML = ''
Cleared == Content(0, FALSE)
\* what the page's markup has in a container before the engine runs
PriorContents == {Cleared, Content(1, FALSE)}

\* the body shared by populateSchedule, populateGallery and
\* populateContactMethods: clear, then the placeholder block for an empty list,
\* else one element per entry
populateList(content, list, section) ==
    LET entries == orDefault(list, section)
    IN IF entries = 0 THEN Content(0, TRUE)
       ELSE Content(Cleared.items + entries, FALSE)

\* TemplateEngine.populateSchedule
populateSchedule(content, list) == populateList(content, list, "schedule")
\* TemplateEngine.populateGallery
populateGallery(content, list) == populateList(content, list, "gallery")
\* TemplateEngine.populateContactMethods
populateContactMethods(content, list) == populateList(content, list, "contact")

\* TemplateEngine.populateRSVPForm: clear the fields container, then one form
\* group per field; there is no branch for an empty list
populateRSVPForm(content, list) ==
    Content(Cleared.items + orDefault(list, "rsvp"), FALSE)

\* the populate function of a section
populate(section, content, list) ==
    CASE section = "schedule" -> populateSchedule(content, list)
      [] section = "gallery" -> populateGallery(content, list)
      [] section = "rsvp" -> populateRSVPForm(content, list)
      [] section = "contact" -> populateContactMethods(content, list)

\* config.customization.navigation is missing
NoNavigation == [s \in {} |-> TRUE]
\* what it may hold: nothing, a section switched off, one on and one off
NavigationInputs ==
    {NoNavigation, [s \in {"details"} |-> FALSE],
     [s \in {"details", "gallery"} |-> s = "gallery"]}

\* TemplateEngine.populateNavigation: the link and the region of every section
\* whose flag is falsy get display none
populateNavigation(hid, nav) ==
    hid \cup {section \in DOMAIN nav : ~nav[section] /\ section \in regions}

\* TemplateEngine.populateAllPlaceholders, as far as the list sections go
populateAllPlaceholders(d, ls) ==
    [section \in ListSections |-> populate(section, d[section], ls[section])]

\* one populate function is called (the containers exist in the page)
Populate(section) ==
    /\ dom' = [dom EXCEPT ![section] = populate(section, dom[section],
                                                lists[section])]
    /\ populated' = populated \cup {section}
    /\ UNCHANGED <<lists, navigation, hidden>>
    /\ UNCHANGED tplRest

\* TemplateEngine.init(config)
TemplateInit ==
    /\ dom' = populateAllPlaceholders(dom, lists)
    /\ populated' = ListSections
    /\ hidden' = populateNavigation(hidden, navigation)
    /\ UNCHANGED <<lists, navigation>>
    /\ UNCHANGED tplRest

TemplateNext ==
    \/ \E section \in ListSections : Populate(section)
    \/ TemplateInit

\* ============================================================= InvitationApp
\* a configuration with the three fields App.validateConfig asks for
EventConfig(title, date, location) ==
    Map([k \in {"event"} |->
           Map([f \in {"title", "date", "location"} |->
                  CASE f = "title" -> title [] f = "date" -> date
                    [] f = "location" -> location])])

\* InvitationApp.getDefaultConfig()
DefaultConfig ==
    EventConfig(Scalar("Event Title - Please Update Config"),
                Scalar("Date TBD - Please Update Config"),
                Scalar("Location TBD - Please Update Config"))

\* window.AppConfig as the repository ships it
ShippedAppConfig ==
    EventConfig(Scalar("Welcome to Our Special Event"),
                Scalar("December 25, 2025 at 6:00 PM"),
                Scalar("Grand Ballroom, Elegant Hotel, 123 Event Street, City, State 12345"))

\* what window.AppConfig may be: absent, as shipped, with a date still to be
\* decided, with the location written as a mapping, without a location
WindowAppConfigs ==
    {Null, ShippedAppConfig,
     EventConfig(Scalar("Welcome to Our Special Event"), Scalar("Date TBD"),
                 Scalar("Grand Ballroom, Elegant Hotel, 123 Event Street, City, State 12345")),
     EventConfig(Scalar("Welcome to Our Special Event"),
                 Scalar("December 25, 2025 at 6:00 PM"),
                 Map([k \in {"venue"} |-> Scalar("Grand Ballroom")])),
     EventConfig(Scalar("Welcome to Our Special Event"),
                 Scalar("December 25, 2025 at 6:00 PM"), Null)}

\* how yamlService.loadConfig may settle: rejected because the fetch failed,
\* js-yaml is not loaded or the text parsed to no object, or fulfilled
LoadFailures == {"fetch-failed", "no-parser", "not-object"}
\* documents a successful load may deliver
AppYamlDocs ==
    {EmptyObject,
     Map([k \in {"event"} |-> Map([f \in {"title"} |-> Scalar("yaml")])]),
     Map([k \in {"event"} |-> Map([f \in {"date"} |-> Date("yaml-date")])]),
     Map([k \in {"event"} |-> Map([f \in {"title"} |-> Number("2025")])]),
     Map([k \in {"event"} |-> Map([f \in {"title"} |-> Boolean("true")])]),
     Map([k \in {"event"} |-> Map([f \in {"date"} |-> Array("yaml-list")])]),
     Map([k \in {"event"} |->
            Map([f \in {"location"} |->
                   Map([v \in {"venue"} |-> Scalar("yaml")])])])}

\* value.includes('TBD') and value.includes('Please Update') on the texts above
includesTBD(str) ==
    str \in {"Date TBD - Please Update Config",
             "Location TBD - Please Update Config", "Date TBD"}
includesPleaseUpdate(str) ==
    str \in {"Event Title - Please Update Config",
             "Date TBD - Please Update Config",
             "Location TBD - Please Update Config"}

RECURSIVE getConfigValue(_, _, _)
\* InvitationApp.getConfigValue(path): current?.[key] key by key from
\* position i on, null as soon as a step yields undefined
getConfigValue(current, keys, i) ==
    IF i > Len(keys) THEN current
    ELSE IF current.kind = "map" /\ keys[i] \in DOMAIN current.kids
         THEN getConfigValue(current.kids[keys[i]], keys, i + 1)
         ELSE Null

EssentialFields == <<"title", "date", "location">>

\* the test of one field in validateConfig: "missing", "present", or "throws"
\* when the value is truthy and has no includes method (a list has one)
fieldCheck(cfg, field) ==
    LET value == getConfigValue(cfg, <<"event", field>>, 1)
    IN IF ~Truthy(value) THEN "missing"
       ELSE IF value.kind = "scalar"
       THEN IF includesTBD(value.val) \/ includesPleaseUpdate(value.val)
            THEN "missing" ELSE "present"
       ELSE IF value.kind = "array" THEN "present"
       ELSE "throws"

\* InvitationApp.validateConfig: whether it throws, and whether it shows the hint
appValidateConfig(cfg) ==
    LET checks == [i \in 1..Len(EssentialFields) |->
                      fieldCheck(cfg, EssentialFields[i])]
        threw == \E i \in 1..Len(checks) : checks[i] = "throws"
    IN [threw |-> threw,
        hint |-> ~threw /\ \E i \in 1..Len(checks) : checks[i] = "missing"]

\* InvitationApp.loadConfig after yamlService.loadConfig has settled: the
\* configuration stored and whether the hint is shown
appLoadConfig(win, outcome, doc) ==
    LET jsCfg == IF win # Null THEN win ELSE DefaultConfig
        cfg == IF outcome = "ok"
               THEN mergeWithJsConfig([id |-> 1, doc |-> doc], jsCfg)
               ELSE jsCfg
        v == appValidateConfig(cfg)
    IN IF v.threw THEN [config |-> DefaultConfig, hint |-> TRUE]
       ELSE [config |-> cfg, hint |-> v.hint]

\* InvitationApp.init up to the await inside loadConfig: a new
\* YamlConfigService starts its fetch
AppInit ==
    /\ appPc = "start"
    /\ appPc' = "loading"
    /\ fetches' = Append(fetches, "pending")
    /\ loadPromise' = Len(fetches) + 1
    /\ calls' = Append(calls, Call(Len(fetches) + 1, 0, TRUE, FALSE))
    /\ cpc' = "load"
    /\ UNCHANGED <<config, isLoaded, jsConfig, merged, path, got>>
    /\ UNCHANGED <<windowAppConfig, appConfig, hint, yamlOutcome, phases>>
    /\ UNCHANGED <<routerVars, tplVars>>
    /\ UNCHANGED <<reloaded, busVars, storVars, formVars, contactVars, asyncVars>>

\* yamlService.loadConfig settles: loadConfig finishes and init runs on, with
\* no timer or network wait on its way (the components' init functions await
\* nothing): EventBus.init, Router.init, initializeComponents (the components,
\* then the template engine), applyTheme, app:ready
AppLoadSettles(outcome, doc) ==
    /\ appPc = "loading"
    /\ LET r == appLoadConfig(windowAppConfig, outcome, doc)
       IN /\ appConfig' = r.config
          /\ hint' = r.hint
    /\ yamlOutcome' = outcome
    /\ RouterInit
    /\ dom' = populateAllPlaceholders(dom, lists)
    /\ populated' = ListSections
    /\ hidden' = populateNavigation(hidden, navigation)
    /\ phases' = <<"config", "bus", "router", "components", "template", "ready">>
    /\ appPc' = "ready"
    /\ fetches' = [fetches EXCEPT ![loadPromise] =
                                    IF outcome = "ok" THEN "ok" ELSE "failed"]
    /\ calls' = [calls EXCEPT ![Len(calls)].result =
                                IF outcome = "ok" THEN loadPromise ELSE 0 - 1]
    /\ IF outcome = "ok"
       THEN /\ config' = [id |-> loadPromise, doc |-> doc]
            /\ isLoaded' = TRUE
            /\ UNCHANGED loadPromise
       ELSE /\ loadPromise' = 0
            /\ UNCHANGED <<config, isLoaded>>
    /\ cpc' = "settled"
    /\ UNCHANGED <<jsConfig, merged, path, got>>
    /\ UNCHANGED <<windowAppConfig, lists, navigation>>
    /\ UNCHANGED <<reloaded, busVars, storVars, formVars, contactVars, asyncVars>>

\* the app's start and, around it, the visitor's clicks on navigation links
\* and the timers of the navigations under way (every configuration modelled
\* stands for one with an app entry, so getAppName finds a name)
AppNext ==
    \/ AppInit
    \/ \E o \in LoadFailures : AppLoadSettles(o, EmptyObject)
    \/ \E d \in AppYamlDocs : AppLoadSettles("ok", d)
    \/ \E s \in NavTargets : Navigate(s, TRUE)
    \/ \E f \in Faults \ {"title"} : NavigateResume(f)

\* ===================================================================== specs
\* The inputs of a page on which nothing is marked visible, the address bar
\* holds no fragment, no document is loaded, local storage works, no form
\* field is required and no JavaScript configuration is present
Quiet == [markups |-> BlankMarkup, hashes |-> {""}, configs |-> NotLoaded,
          defaults |-> {EmptyObject}, paths |-> {<<"event">>},
          available |-> {TRUE}, required |-> {{}}, emailConfigured |-> {TRUE},
          windowAppConfigs |-> {Null},
          lists |-> {[section \in ListSections |-> Absent]},
          navigations |-> {NoNavigation},
          contents |-> {Cleared}]

\* The state after the constructors of EventBus, Router, YamlConfigService and
\* StorageService. The markup, the address bar, the availability of local
\* storage and, for the pure functions, the loaded document and the arguments
\* are drawn from the sets of the record given.
Init(in) ==
    /\ events = EmptyMap
    /\ regs = <<>>
    /\ em = Idle
    /\ resolved = <<>>
    /\ last = 0
    /\ routes = {}
    /\ currentSection = "home"
    /\ history = <<>>
    /\ active \in in.markups
    /\ activeLinks = {}
    /\ docTitle = ""
    /\ locHash \in in.hashes
    /\ pending = <<>>
    /\ backExpect = ""
    /\ step = NoStep
    /\ config \in in.configs
    /\ isLoaded = HasConfig(config)
    /\ loadPromise = 0
    /\ fetches = <<>>
    /\ calls = <<>>
    /\ jsConfig \in in.defaults
    /\ merged = EmptyObject
    /\ path \in in.paths
    /\ got = Null
    /\ cpc = "init"
    /\ reloaded = <<>>
    /\ requests = <<>>
    /\ contact = NewContact
    /\ aem = NoPublish
    /\ storage = [k \in StorageKeys |-> stringify(NoItem)]
    /\ isAvailable \in in.available
    /\ now = 1
    /\ sop = NoSop
    /\ required \in in.required
    /\ values = [f \in Fields |-> ""]
    /\ errors = {}
    /\ isSubmitting = FALSE
    /\ formData = NoFormData
    /\ emailConfigured \in in.emailConfigured
    /\ fop = NoFop
    /\ windowAppConfig \in in.windowAppConfigs
    /\ appConfig = Null
    /\ hint = FALSE
    /\ appPc = "start"
    /\ yamlOutcome = "none"
    /\ phases = <<>>
    /\ lists \in in.lists
    /\ dom \in [ListSections -> in.contents]
    /\ populated = {}
    /\ navigation \in in.navigations
    /\ hidden = {}

SpecBus ==
    Init(Quiet) /\ [][BusNext]_vars

\* the timers of executeListener do fire; an awaitable may never settle
SpecAsync ==
    /\ Init(Quiet)
    /\ [][AsyncNext]_vars
    /\ \A i \in 1..MaxRegs : WF_vars(ListenerTimeout(i))

SpecRouter ==
    Init([Quiet EXCEPT !.markups = Markups, !.hashes = HashInputs])
    /\ [][RouterNext]_vars

SpecHistory ==
    Init(Quiet) /\ [][HistoryNext]_vars

\* clicks, browser back/forward and goBack, with navigations that do not fail
BackNext ==
    \/ RouterInitCall
    \/ \E s \in NavTargets, u \in BOOLEAN : Navigate(s, u)
    \/ NavigateResume("none")
    \/ GoBack

\* the router with timers that fire and a caller that keeps calling goBack
\* whenever no navigation is under way
SpecBack ==
    /\ Init([Quiet EXCEPT !.hashes = HashInputs])
    /\ [][BackNext]_vars
    /\ WF_vars(NavigateResume("none"))
    /\ WF_vars(pending = <<>> /\ GoBack)

SpecLoad ==
    Init(Quiet) /\ [][CfgLoadNext]_vars

SpecReload ==
    Init(Quiet) /\ [][CfgReloadNext]_vars

SpecMerge ==
    Init([Quiet EXCEPT !.configs = NotLoaded \cup LoadedDocs,
                       !.defaults = JsConfigs])
    /\ [][MergeNext]_vars

SpecGet ==
    Init([Quiet EXCEPT !.configs = NotLoaded \cup LoadedDocs, !.paths = Paths])
    /\ [][GetNext]_vars

SpecStorage ==
    Init([Quiet EXCEPT !.available = BOOLEAN]) /\ [][StorageNext]_vars

SpecApp ==
    Init([Quiet EXCEPT !.windowAppConfigs = WindowAppConfigs])
    /\ [][AppNext]_vars

\* the app starts; then the visitor clicks the navigation links that show,
\* the address bar's fragment changes (a typed address, a link to #section),
\* and the timers of the navigations fire
NavNext ==
    \/ AppInit
    \/ \E d \in {EmptyObject} : AppLoadSettles("ok", d)
    \/ \E s \in NavTargets \ hidden : Navigate(s, TRUE)
    \/ \E h \in HashInputs : HandleHashChange(h)
    \/ NavigateResume("none")

SpecNav ==
    Init([Quiet EXCEPT !.navigations = NavigationInputs, !.hashes = HashInputs])
    /\ [][NavNext]_vars

SpecTemplate ==
    Init([Quiet EXCEPT !.lists = [ListSections -> ListInputs],
                       !.contents = PriorContents])
    /\ [][TemplateNext]_vars

SpecContact ==
    Init([Quiet EXCEPT !.emailConfigured = BOOLEAN]) /\ [][ContactNext]_vars

\* both forms on one page: the visitor types, submits either form at any time,
\* the email service answers, the reset timers fire
SubmitNext ==
    \/ \E v \in FieldInputs["guestName"] : Input("guestName", v)
    \/ HandleFormSubmit
    \/ \E ok \in BOOLEAN : SubmitSettles(ok)
    \/ \E f \in ContactFields : \E v \in ContactInputs[f] : ContactInput(f, v)
    \/ ContactHandleFormSubmit
    \/ \E ok \in BOOLEAN : ContactSubmitSettles(ok)
    \/ ContactResetForm

SpecSubmit ==
    Init([Quiet EXCEPT !.emailConfigured = BOOLEAN]) /\ [][SubmitNext]_vars

SpecForm ==
    Init([Quiet EXCEPT !.required = RequiredSets, !.emailConfigured = BOOLEAN])
    /\ [][FormNext]_vars

OneSectionVisibleCurrentAfterSuccess ==
    docTitle # "" =>
        /\ Cardinality(active) = 1
        /\ (step.op = "resume" /\ step.ret = "true") => active = {currentSection}
        /\ active # {currentSection} =>
              \E s \in regions : active = {s} /\ s # currentSection

\* C1 witness: a navigate has just returned true for a section other than home
\* while a navigate call that overlapped it is still suspended.
C1_Witness ==
    /\ step.op = "resume" /\ step.ret = "true"
    /\ pending # <<>>
    /\ currentSection # "home"
    /\ active = {currentSection}

\* C7: navigate to a section that is not a registered route returns false and
\* changes nothing: current section, history, visible region, links, title, URL
\* and suspended calls are as before, and no bus event is published.
C7_UnknownRouteChangesNothing ==
    [][(step'.op = "navigate" /\ step'.to \notin routes) =>
          /\ step'.ret = "false"
          /\ step'.emitted = <<>>
          /\ UNCHANGED <<routes, currentSection, history, active, activeLinks,
                         docTitle, locHash, pending>>
      ]_routerVars

\* C7 witness: navigate has just been called with an unknown section on an
\* initialised router that has a history and a visible current section.
C7_Witness ==
    /\ step.op = "navigate" /\ step.to = "nowhere" /\ step.ret = "false"
    /\ routes # {}
    /\ history # <<>>
    /\ active = {currentSection}

\* C10: with at least two history entries, goBack navigates to the section
\* that was current immediately before the most recent recorded navigation
\* (after recorded navigations A to B to C it makes B the current section).
C10_GoBackReachesPreviousSection ==
    (step.op = "resume" /\ step.expect # "") => currentSection = step.expect

\* What goBack does do with two or more entries: it drops the two most recent
\* records, pushes no browser state, and its navigation appends no record.
GoBackDropsTwoRecords ==
    [][(step'.op = "goBack" /\ Len(history) > 1) =>
          /\ history' = SubSeq(history, 1, Len(history) - 2)
          /\ locHash' = locHash
          /\ pending'[Len(pending')] =
                [from |-> currentSection, to |-> history[Len(history) - 1].from,
                 upd |-> FALSE, trace |-> navigateBegin]
      ]_routerVars

\* position of the one occurrence of x in the trace t (0: none or several)
At(t, x) ==
    IF Cardinality({i \in 1..Len(t) : t[i] = x}) = 1
    THEN CHOOSE i \in 1..Len(t) : t[i] = x ELSE 0
\* a before b, each done exactly once
Before(t, a, b) == At(t, a) > 0 /\ At(t, b) > 0 /\ At(t, a) < At(t, b)

\* C15: every successful navigate performs its steps in this order, each once:
\* navigation:start is published before the beforeEnter hook runs; the current
\* section and the visible section change only after that hook has completed
\* (they are untouched while it is awaited); the afterEnter hook runs after the
\* visibility change; navigation:complete and then navigation:change (for the
\* section navigated to) are published last.
C15_NavigateStepsInOrder ==
    /\ []((step.op = "resume" /\ step.ret = "true") =>
            LET t == step.trace
            IN /\ Before(t, "navigation:start", "beforeEnter")
               /\ Before(t, "beforeEnter", "beforeEnter:done")
               /\ Before(t, "beforeEnter:done", "currentSection")
               /\ Before(t, "currentSection", "showSection")
               /\ Before(t, "showSection", "afterEnter")
               /\ Before(t, "afterEnter", "afterEnter:done")
               /\ Before(t, "afterEnter:done", "navigation:complete")
               /\ At(t, "navigation:complete") = Len(t) - 1
               /\ At(t, "navigation:change") = Len(t)
               /\ step.emitted = <<"navigation:complete", "navigation:change">>
               /\ currentSection = step.to
               /\ active = {step.to})
    /\ [][step'.ret = "suspended" =>
            /\ step'.emitted = <<"navigation:start">>
            /\ currentSection' = currentSection
            /\ active' = active]_vars

\* C15 witness: a navigate to the details section, begun on another section,
\* has returned true
C15_Witness ==
    /\ step.op = "resume" /\ step.ret = "true" /\ step.to = "details"
    /\ history # <<>> /\ history[Len(history)].from # "details"
    /\ "addToHistory" \in {step.trace[i] : i \in 1..Len(step.trace)}

\* the steps of the call that has just come back
Done == {step.trace[i] : i \in 1..Len(step.trace)}

\* C16: if the beforeEnter hook, the afterEnter hook or a step between them
\* throws, navigate catches the exception, publishes navigation:error, returns
\* false and publishes neither navigation:complete nor navigation:change for
\* that call; when it is the beforeEnter hook that fails, the current section
\* and the visible section are unchanged.
C16_NavigateCatchesAndReportsError ==
    /\ []((step.op = "resume" /\ "afterEnter:done" \notin Done) =>
            /\ step.ret = "false"
            /\ step.emitted = <<"navigation:error">>
            /\ step.trace[Len(step.trace)] = "navigation:error"
            /\ "navigation:complete" \notin Done
            /\ "navigation:change" \notin Done
            /\ "addToHistory" \notin Done)
    /\ [][(step'.op = "resume" /\ "beforeEnter:done" \notin
                {step'.trace[i] : i \in 1..Len(step'.trace)}) =>
            /\ step'.ret = "false"
            /\ currentSection' = currentSection
            /\ active' = active
            /\ activeLinks' = activeLinks
            /\ history' = history]_vars

\* C16 witness: a navigate from details to gallery whose beforeEnter hook threw
\* has returned false, with details still current and visible
C16_Witness ==
    /\ step.op = "resume" /\ step.ret = "false" /\ step.to = "gallery"
    /\ "beforeEnter:done" \notin Done
    /\ currentSection = "details" /\ active = {"details"}

C18_HistoryIsCappedAtMaxHistory ==
    /\ [](Len(history) <= maxHistory)
    /\ [][(step'.op = "resume" /\ step'.ret = "true" /\ Head(pending).upd) =>
            LET record == [from |-> Head(pending).from, to |-> step'.to]
            IN IF Len(history) = maxHistory
               THEN /\ Len(history') = maxHistory
                    /\ history' = SubSeq(history, 2, maxHistory) \o <<record>>
               ELSE history' = history \o <<record>>]_vars

\* C18 witness: an append to a history of maxHistory entries has just been
\* made: the history is full and the record of the first navigation recorded,
\* from home to details, is no longer its first entry
C18_Witness ==
    /\ step.op = "resume" /\ step.ret = "true"
    /\ Len(history) = maxHistory
    /\ history[maxHistory].to = currentSection
    /\ history[1] # [from |-> "home", to |-> "details"]

\* C22: each history entry's from is the section that was current immediately
\* before that entry's navigation took effect, also when the navigate call
\* started while an earlier one was awaiting its beforeEnter hook: of two
\* recorded navigations taking effect one after the other, the later entry's
\* from is the earlier entry's to.
C22_FromIsSectionCurrentBeforeEffect ==
    [][(step'.op = "resume" /\ step'.ret = "true" /\ Head(pending).upd) =>
          history'[Len(history')].from = currentSection]_vars

\* what the record holds instead: the section that was current when navigate
\* was called, which an overlapping call that resumed in between has replaced
FromIsSectionCurrentAtCall ==
    [][(step'.ret = "suspended" /\ Len(pending') > Len(pending)) =>
          pending'[Len(pending')].from = currentSection]_vars

\* a step of a caller who does nothing but call goBack, each call after the
\* navigation of the previous one has completed, and of those navigations
BackStep ==
    \/ step'.op = "goBack" /\ pending = <<>>
    \/ step'.op = "resume" /\ step'.ret = "true"
OtherStep == ~BackStep

\* C29: from every reachable router state, calling goBack repeatedly (each
\* call after the previous one's navigation has completed) eventually reaches
\* a state where the current section is home and goBack returns false without
\* navigating; with fewer than two history entries goBack navigates to home
\* when the current section is not home and does nothing when it is.
C29_RepeatedGoBackEndsAtHome ==
    /\ ([]<><<OtherStep>>_vars) \/
         []<>(step.op = "goBack" /\ step.ret = "false"
                /\ currentSection = "home" /\ pending = <<>>)
    /\ [][(step'.op = "goBack" /\ Len(history) < 2) =>
            IF currentSection # "home"
            THEN /\ step'.ret = "true"
                 /\ Len(pending') = Len(pending) + 1
                 /\ pending'[Len(pending')].to = "home"
                 /\ history' = history
            ELSE /\ step'.ret = "false"
                 /\ UNCHANGED <<currentSection, history, active, pending,
                                locHash>>]_vars

\* C29 witness: goBack has returned false on home after an earlier goBack fell
\* back to home from another section and had its navigation recorded
C29_Witness ==
    /\ step.op = "goBack" /\ step.ret = "false"
    /\ currentSection = "home" /\ pending = <<>>
    /\ Len(history) = 1
    /\ history[1].to = "home" /\ history[1].from # "home"

\* ---------------------------------------------- YamlConfigService properties
RECURSIVE MergeByKind(_, _)
\* the merge as the contract words it: a key held by both sides as non-array
\* plain mappings merges recursively, any other loaded value replaces the
\* default, and a key the loaded document lacks keeps its default
MergeByKind(defaults, loaded) ==
    Map([key \in DOMAIN defaults.kids \cup DOMAIN loaded.kids |->
            IF key \notin DOMAIN loaded.kids THEN defaults.kids[key]
            ELSE IF /\ key \in DOMAIN defaults.kids
                    /\ defaults.kids[key].kind = "map"
                    /\ loaded.kids[key].kind = "map"
            THEN MergeByKind(defaults.kids[key], loaded.kids[key])
            ELSE loaded.kids[key]])

RECURSIVE HoldsDate(_)
HoldsDate(v) ==
    v.kind = "date" \/ \E key \in DOMAIN v.kids : HoldsDate(v.kids[key])

\* C4: mergeWithJsConfig(defaults) is the deep merge of the loaded document
\* over the defaults: recursive where both sides hold non-array plain mappings,
\* otherwise the loaded value replaces the default wholesale, and default keys
\* the loaded document lacks keep their default value.
C4_MergeIsDeepMergeOfLoadedOverDefaults ==
    (cpc = "merged" /\ HasConfig(config)) =>
        merged = MergeByKind(jsConfig, config.doc)

\* What the merge does do: for loaded documents that hold no date value it is
\* that deep merge, and without a loaded document it returns the defaults.
MergeOfDatelessDocumentIsDeepMerge ==
    cpc = "merged" =>
        IF ~HasConfig(config) THEN merged = jsConfig
        ELSE ~HoldsDate(config.doc) =>
                 merged = MergeByKind(jsConfig, config.doc)

\* C5: for every configuration, empty and not yet loaded ones included, and
\* every path, get(path) without a caller fallback returns neither null nor
\* undefined (no value of a parsed document is undefined); on an empty or
\* missing configuration get("event.title") returns the title placeholder, a
\* non-empty string.
C5_GetNeverReturnsNull ==
    cpc = "get" =>
        /\ got.kind # "null"
        /\ (config.doc \in {Null, EmptyObject} /\ path = <<"event", "title">>) =>
               /\ got.kind = "scalar" /\ got.val # ""
               /\ got = Scalar("Event Title - Please Update Config")

\* C5 witness: get("event.title") has answered on a loaded, empty document.
C5_Witness ==
    /\ cpc = "get"
    /\ HasConfig(config) /\ config.doc = EmptyObject
    /\ path = <<"event", "title">>
    /\ got.val = "Event Title - Please Update Config"

\* get on a null leaf: the placeholder stands in for the null.
GetNullLeafGivesPlaceholder ==
    (cpc = "get" /\ HasConfig(config) /\ path = <<"event", "title">>
       /\ "event" \in OwnKeys(config.doc)
       /\ "title" \in OwnKeys(config.doc.kids["event"])
       /\ config.doc.kids["event"].kids["title"] = Null) =>
        got = Scalar("Event Title - Please Update Config")

\* the keywords _getGracefulFallback recognises, each with its placeholder
Keywords == {"title", "subtitle", "date", "location", "name", "email", "phone",
             "dresscode", "dining", "heroimage"}
PlaceholderOf(word) ==
    CASE word = "title" -> "Event Title - Please Update Config"
      [] word = "subtitle" -> "Please update your event details in config.yaml"
      [] word = "date" -> "Date TBD - Please Update Config"
      [] word = "location" -> "Location TBD - Please Update Config"
      [] word = "name" -> "Name TBD"
      [] word = "email" -> "email@example.com"
      [] word = "phone" -> "+1 (555) 000-0000"
      [] word = "dresscode" -> "Dress code TBD"
      [] word = "dining" -> "Dining details TBD"
      [] word = "heroimage" -> "placeholder-hero.svg"

\* the keywords the path string of keys contains, letter case apart
Contained(keys) ==
    {w \in Keywords : includes(toLowerCase(PathString(keys)), Chars(w))}
\* of those, the ones that are not part of a longer contained keyword (the
\* "title" inside "subtitle" is not a keyword of its own)
KeywordsOf(keys) ==
    {w \in Contained(keys) :
        \A v \in Contained(keys) \ {w} : ~includes(Chars(v), Chars(w))}

\* get(path) found no value: nothing is loaded, a key is missing, or the leaf
\* is null
NoValueAt(cfg, keys) ==
    ~HasConfig(cfg) \/ getWalk(cfg.doc, keys, 1, Null) = Null

\* C14: for a missing key (or null leaf) and no caller fallback, get(path)
\* returns the placeholder of the keyword contained in the path: each of
\* title, subtitle, date, location, name, email, phone, dresscode, dining and
\* heroimage yields its own placeholder.
C14_PlaceholderOfContainedKeyword ==
    (cpc = "get" /\ NoValueAt(config, path)) =>
        \A w \in Keywords : KeywordsOf(path) = {w} => got = Scalar(PlaceholderOf(w))

\* the order in which _getGracefulFallback tries the keywords
KeywordOrder ==
    <<"title", "subtitle", "date", "location", "name", "email", "phone",
      "dresscode", "dining", "heroimage">>

\* what get does return: the placeholder of the first keyword, in the order
\* tried, that the path contains; "subtitle" contains "title", which is tried
\* before it, so the subtitle placeholder is never returned
FirstContainedKeywordDecides ==
    (cpc = "get" /\ NoValueAt(config, path)) =>
        /\ \A i \in 1..Len(KeywordOrder) :
              (/\ KeywordOrder[i] \in Contained(path)
               /\ \A j \in 1..(i - 1) : KeywordOrder[j] \notin Contained(path))
                 => got = Scalar(PlaceholderOf(KeywordOrder[i]))
        /\ Contained(path) = {} => got = Scalar("Please update config.yaml")
        /\ got # Scalar(PlaceholderOf("subtitle"))

Pending(fs) == {f \in 1..Len(fs) : fs[f] = "pending"}
Succeeded(fs) == {f \in 1..Len(fs) : fs[f] = "ok"}

\* C6: loadConfig calls made while a load is in flight start no further fetch
\* and settle with that one fetch, so all callers receive the same parsed
\* object; a call made after a successful load starts no fetch and returns the
\* cached object.
C6_LoadIsMemoized ==
    /\ [](/\ Cardinality(Pending(fetches)) <= 1
          /\ \A i \in 1..Len(calls) :
                /\ calls[i].result = 0 => calls[i].src \in Pending(fetches)
                /\ calls[i].result > 0 =>
                      HasConfig(config) /\ calls[i].result = config.id)
    /\ [][(Len(calls') > Len(calls)
             /\ (Pending(fetches) # {} \/ Succeeded(fetches) # {})) =>
            /\ fetches' = fetches
            /\ LET call == calls'[Len(calls')]
               IN /\ Pending(fetches) # {} =>
                        call.src \in Pending(fetches) /\ call.result = 0
                  /\ Succeeded(fetches) # {} => call.result = config.id
         ]_cfgVars

\* C6 witness: one fetch was made; a call that joined it in flight and a call
\* made after it succeeded both hold the object the service caches.
C6_Witness ==
    /\ Len(fetches) = 1 /\ HasConfig(config)
    /\ \E i, j \in 1..Len(calls) :
          /\ ~calls[i].owner /\ ~calls[i].late /\ calls[i].result = config.id
          /\ calls[j].late /\ calls[j].result = config.id

\* the fetch of the most recent reloadConfig call (0: none was made)
LastReload == IF reloaded = <<>> THEN 0 ELSE reloaded[Len(reloaded)]

\* the most recent reloadConfig has resolved, no load is in flight and no
\* fetch was started after it
ReloadResolved ==
    /\ LastReload # 0
    /\ LastReload = Len(fetches)
    /\ fetches[LastReload] = "ok"
    /\ Pending(fetches) = {}

\* C23: once reloadConfig has resolved and all earlier loads have settled,
\* getConfig returns the object of the reload's fetch, also when the reload was
\* called while a load was in flight and the two fetches settle in either
\* order; getConfig and a subsequent loadConfig return the same object.
C23_ReloadedDocumentIsCurrent ==
    /\ [](ReloadResolved => (HasConfig(config) /\ config.id = LastReload))
    /\ [][(ReloadResolved /\ Len(calls') > Len(calls) /\ reloaded' = reloaded) =>
            calls'[Len(calls')].result = config.id]_vars

\* what does hold: the service caches the object of the fetch that succeeded
\* last, whichever call started it
LastSettledFetchIsCurrent ==
    [][(\E f \in 1..Len(fetches) : fetches[f] = "pending" /\ fetches'[f] = "ok")
         => fetches'[config'.id] = "ok" /\ fetches[config'.id] = "pending"]_vars

\* C27: validateConfig(requiredFields) returns exactly the required paths that
\* are missing from the configuration or whose leaf is null, and the empty list
\* only when every required field is present.
C27_ValidateConfigReturnsMissingFields ==
    cpc = "validateConfig" =>
        got.missing = SelectSeq(got.fields, LAMBDA f : NoValueAt(config, f))

\* what validateConfig does return: the empty list, whatever is loaded
ValidateConfigReturnsEmptyList ==
    cpc = "validateConfig" => got.missing = <<>>

\* ------------------------------------------------- StorageService properties
\* C11: setItem(key, value, {expires}) with an expiry time earlier than the
\* current time, followed by getItem(key, fallback), returns the fallback and
\* leaves no entry for the key in storage.
C11_ExpiredRoundTripReturnsFallback ==
    (sop.op = "getItem" /\ sop.past) =>
        /\ sop.ret = Fallback
        /\ storage[sop.key] = stringify(NoItem)

\* What the round trip does do: when the expiry time is not 0 and setItem
\* reported success, the read returns the fallback and removes the entry.
ExpiredRoundTripOfSavedNonzeroExpiry ==
    (sop.op = "getItem" /\ sop.past /\ sop.saved /\ sop.expires # 0) =>
        /\ sop.ret = Fallback
        /\ storage[sop.key] = stringify(NoItem)

\* With expiry time 0 the entry is stored as one that never expires.
ZeroExpiryIsKept ==
    (sop.op = "getItem" /\ sop.past /\ sop.saved /\ sop.expires = 0) =>
        /\ sop.ret # Fallback
        /\ storage[sop.key] # stringify(NoItem)

\* -------------------------------------------------- RSVPComponent properties
\* required fields left empty
EmptyRequired == {f \in required : values[f] = ""}
\* required fields left empty or holding white space only
BlankRequired == {f \in required : values[f] \in {"", " "}}
\* fields whose text is not empty and not of the form the field asks for
Malformed == {f \in Fields : values[f] \in {"ann", "12", "0"}}

\* C12: submitting the RSVP form while a required field is empty sends
\* nothing (no email-service call, no storage backup, no form:success event),
\* marks exactly the empty required fields invalid and no other field, and
\* leaves the values of all fields unchanged.
C12_EmptyRequiredMarksExactlyThoseFields ==
    [][(fop'.op = "submit" /\ EmptyRequired # {}) =>
          /\ ~fop'.sent /\ ~fop'.saved /\ fop'.event # "form:success"
          /\ errors' = EmptyRequired
          /\ values' = values
      ]_formVars

\* C12 as the code has it: submitting the RSVP form while no submission is in
\* flight and a required field is empty sends nothing, publishes no form event,
\* marks invalid the required fields that are empty or blank and, besides
\* those, exactly the fields whose non-empty text fails its format check, and
\* leaves the values of all fields unchanged.
C12_EmptyRequiredBlocksSubmission ==
    [][(fop'.op = "submit" /\ ~isSubmitting /\ EmptyRequired # {}) =>
          /\ ~fop'.sent /\ ~fop'.saved /\ fop'.event = ""
          /\ ~isSubmitting'
          /\ errors' = BlankRequired \cup Malformed
          /\ values' = values
      ]_formVars

\* C12 witness: a submit with the required name empty and a malformed email
\* was blocked; both fields are marked and the guest count entered is kept.
C12_Witness ==
    /\ fop.op = "submit" /\ ~fop.sent /\ ~isSubmitting
    /\ "guestName" \in required /\ values["guestName"] = ""
    /\ values["guest-email"] = "ann" /\ values["guest-count"] = "2"
    /\ errors = {"guestName", "guest-email"}

\* ----------------------------------------------- ContactComponent properties
\* C25: each of the RSVP and the contact form has at most one submission in
\* flight: a submit attempt made while isSubmitting is true sends nothing and
\* leaves the collected form data as it is; when the submission in flight
\* settles, successfully or not, isSubmitting is false again, and a submit
\* made then with a valid form is sent.
C25_AtMostOneSubmissionInFlight ==
    /\ [](/\ Len(requests) <= 1
          /\ Len(contact.requests) <= 1
          /\ (isSubmitting <=> requests # <<>>)
          /\ (contact.isSubmitting <=> contact.requests # <<>>))
    /\ [][(fop'.op = "submit" /\ isSubmitting) =>
            (~fop'.sent /\ formData' = formData /\ requests' = requests)]_formVars
    /\ [][(contact'.op.op = "submit" /\ contact.isSubmitting) =>
            (/\ ~contact'.op.sent /\ contact'.formData = contact.formData
             /\ contact'.requests = contact.requests)]_contactVars
    /\ [][fop'.op = "settled" => ~isSubmitting']_formVars
    /\ [][contact'.op.op = "settled" => ~contact'.isSubmitting]_contactVars
    /\ [][(fop'.op = "submit" /\ ~isSubmitting /\ emailConfigured
             /\ validateForm(required, values).isValid) =>
            (fop'.sent /\ requests' = <<values>>)]_formVars
    /\ [][(contact'.op.op = "submit" /\ ~contact.isSubmitting /\ emailConfigured
             /\ contactValidateForm(contact.values).isValid) =>
            (contact'.op.sent /\ contact'.requests = <<contact.values>>)]_contactVars

\* C25 witness: the contact form has a submission in flight, and so has the
\* RSVP form, on which a submit attempt has just been turned away: the visitor
\* had changed the name, the data collected and sent is the earlier one.
C25_Witness ==
    /\ contact.isSubmitting /\ Len(contact.requests) = 1
    /\ fop.op = "submit" /\ ~fop.sent
    /\ isSubmitting /\ requests = <<formData>>
    /\ values # formData

\* C24: for every successful contact submission, the storage backup and the
\* data of the form:success event are the form data that was collected for and
\* sent in that submission, also when the delayed reset of an earlier success
\* fires while the new submission is in flight.
C24_SuccessReportsTheDataSent ==
    [][(contact'.op.event = "form:success") =>
          /\ contact'.op.saved = Head(contact.requests)
          /\ contact'.op.data = Head(contact.requests)]_vars

\* what does hold: the backup and the event carry this.formData as it is when
\* the email service answers, which is the data sent unless a resetForm timer
\* fired in between and emptied it
SuccessReportsFormDataAtAnswer ==
    [][(contact'.op.event = "form:success") =>
          /\ contact'.op.saved = contact.formData
          /\ contact'.op.data = contact.formData
          /\ contact.formData \in {Head(contact.requests), NoFormData}]_vars

\* -------------------------------------------------- InvitationApp properties
\* the configuration loadConfig starts from when no document was loaded
JsConfigOfWindow ==
    IF windowAppConfig # Null THEN windowAppConfig ELSE DefaultConfig

\* some essential field of cfg is absent, empty, still a placeholder, or not a
\* text at all
NeedsUpdating(cfg) ==
    \E i \in 1..Len(EssentialFields) : fieldCheck(cfg, EssentialFields[i]) # "present"

\* C13: whenever loading the external document fails (fetch failure, parser
\* unavailable, non-object result), loadConfig completes, the app configuration
\* is the default configuration (the JavaScript one or the built-in one), the
\* on-page configuration hint is shown, and initialization runs to its end
C13_LoadFailureGivesDefaultsAndHint ==
    (appPc = "ready" /\ yamlOutcome \in LoadFailures) =>
        /\ appConfig \in {JsConfigOfWindow, DefaultConfig}
        /\ hint
        /\ phases[Len(phases)] = "ready"

\* what does hold after a failed load: the configuration is a default one and
\* initialization runs to its end, but the hint appears only when an essential
\* field of that configuration needs updating
LoadFailureShowsHintOnlyForFieldsToUpdate ==
    (appPc = "ready" /\ yamlOutcome \in LoadFailures) =>
        /\ appConfig \in {JsConfigOfWindow, DefaultConfig}
        /\ hint <=> NeedsUpdating(JsConfigOfWindow)
        /\ phases[Len(phases)] = "ready"

\* C26: whenever the external document is fetched and parsed successfully, the
\* app configuration is the deep merge of the document over the JavaScript
\* configuration, whatever the types of event.title, event.date and
\* event.location (string, number, date, boolean, list, mapping): the document
\* is never discarded in favour of the hard-coded defaults.
C26_LoadedDocumentIsMerged ==
    (appPc = "ready" /\ yamlOutcome = "ok") =>
        appConfig = mergeWithJsConfig(config, JsConfigOfWindow)

\* every essential field of cfg is empty, a text or a list
TextOrListOrEmpty(cfg) ==
    \A i \in 1..Len(EssentialFields) : fieldCheck(cfg, EssentialFields[i]) # "throws"

\* what does hold: the merge is kept when its three essential fields are texts,
\* lists or empty; otherwise the built-in defaults replace it and the hint shows
LoadedDocumentKeptWhenFieldsAreTextOrList ==
    (appPc = "ready" /\ yamlOutcome = "ok") =>
        LET m == mergeWithJsConfig(config, JsConfigOfWindow)
        IN IF TextOrListOrEmpty(m) THEN appConfig = m
           ELSE appConfig = DefaultConfig /\ hint

\* C19: during start-up the phases happen in this order: the configuration is
\* loaded and merged, then the template engine populates the DOM, then the
\* components initialize and subscribe to the event bus, and only then does the
\* router dispatch its first navigation events; no navigation:change is
\* published before the components have subscribed.
C19_StartUpPhasesInOrder ==
    /\ appPc = "ready" =>
          /\ Before(phases, "config", "template")
          /\ Before(phases, "template", "components")
          /\ Before(phases, "components", "router")
    /\ (\E i \in 1..Len(step.emitted) : step.emitted[i] = "navigation:change")
          => \E i \in 1..Len(phases) : phases[i] = "components"

\* the order the code has: configuration, event bus, router (whose init
\* publishes the navigation:start of the initial route at once), components,
\* template engine; the initial route's navigation:complete and
\* navigation:change wait for the 300 ms timer and so come after all of these
StartUpOrderOfTheCode ==
    /\ appPc = "ready" =>
          /\ Before(phases, "config", "bus")
          /\ Before(phases, "bus", "router")
          /\ Before(phases, "router", "components")
          /\ Before(phases, "components", "template")
          /\ Before(phases, "template", "ready")
    /\ (\E i \in 1..Len(step.emitted) : step.emitted[i] = "navigation:change")
          => appPc = "ready"
    /\ (appPc = "ready" /\ step.op = "init") =>
          step.emitted = <<"navigation:start">> /\ Len(pending) = 1

\* ------------------------------------------------- TemplateEngine properties
\* the sections config.customization.navigation switches off
SwitchedOff == {section \in DOMAIN navigation : ~navigation[section]}

\* C28: once the template engine has applied the configuration, a section
\* whose customization.navigation flag is false is not the router's current
\* section and never becomes it, whatever triggers the navigation.
C28_SwitchedOffSectionIsNeverCurrent ==
    appPc = "ready" => currentSection \notin SwitchedOff

\* what the template engine does do: it hides the link and the region of the
\* sections switched off, so that no click on a navigation link leads there
SwitchedOffSectionsAreHidden ==
    /\ [](appPc = "ready" => hidden = SwitchedOff)
    /\ [][(step'.op = "navigate" /\ appPc = "ready") =>
            step'.to \notin SwitchedOff]_routerVars

\* C20: for each of the four list-shaped sections (schedule, gallery images,
\* RSVP field definitions, contact methods), when the configured list is empty
\* the template engine clears the prior content and renders an explicit
\* placeholder block, so the region is never left blank.
C20_EmptyListRendersPlaceholder ==
    \A section \in ListSections :
        (section \in populated /\ lists[section] = 0) =>
            dom[section] = Content(0, TRUE)

\* what does hold: the schedule, the gallery and the contact methods show the
\* placeholder block for an empty list; the RSVP fields container is cleared
\* and left blank; an absent list is replaced by the built-in one, and a list
\* with entries is rendered entry by entry in place of the prior content
EmptyListBlankOnlyInRSVPForm ==
    \A section \in populated :
        dom[section] =
            IF lists[section] = 0
            THEN Content(0, section # "rsvp")
            ELSE Content(IF lists[section] = Absent THEN DefaultLength(section)
                         ELSE lists[section], FALSE)

\* ------------------------------------------------------- EventBus properties
RegsOf(ev, t) == IF MapHas(ev, t) THEN ev[t] ELSE <<>>
Registered(ev, id) ==
    \E t \in DOMAIN ev : \E k \in 1..Len(ev[t]) : ev[t][k].id = id
ResultIds == [i \in 1..Len(em.results) |-> em.results[i].id]
Threw(id) == \E i \in 1..Len(em.results) :
                 em.results[i].id = id /\ ~em.results[i].success

\* C2: a synchronous publish invokes every listener registered for the event
\* type at the moment of the publish, exactly once each and in registration
\* order, whatever the listeners do when invoked.
C2_SyncPublishInvokesAllInOrder ==
    em.phase = "done" => ResultIds = em.snapshot

\* C3: a publish to an event type without subscribers resolves with an empty
\* result; a synchronous publish to N subscribers, of which any subset throws,
\* invokes all N and resolves with N entries, the i-th reporting the i-th
\* listener. (Stated for publishes during which no listener body called the bus.)
C3_PublishResultPerListener ==
    (em.phase = "done" /\ ~em.mutated) =>
        /\ Len(em.results) = Len(em.snapshot)
        /\ \A i \in 1..Len(em.results) : em.results[i].id = em.snapshot[i]
        /\ (~MapHas(events, em.type) /\ em.snapshot = <<>>) => em.results = <<>>

\* The part of C3 the code does satisfy: when none of the N listeners is a once
\* wrapper and no listener body calls the bus, all N are invoked, throwing or
\* not, and the result has N entries in registration order.
PublishResultWithoutSelfRemoval ==
    (em.phase = "done" /\ ~em.mutated
        /\ \A k \in 1..Len(em.snapshot) : ~regs[em.snapshot[k]].once) =>
        /\ Len(em.results) = Len(em.snapshot)
        /\ \A i \in 1..Len(em.results) : em.results[i].id = em.snapshot[i]

C9_OnceResolvedByFirstPublish ==
    (em.phase = "done" /\ ~em.mutated) =>
        \A k \in 1..Len(em.snapshot) :
            LET id == em.snapshot[k]
            IN (regs[id].once /\ ~Threw(id)) =>
                  (resolved[id] = em.data /\ ~Registered(events, id))

\* the listeners of the asynchronous publish whose timer has fired
TimedOut == {i \in 1..Len(aem.state) : aem.state[i] = "timeout"}
\* listener i of the asynchronous publish has returned an awaitable that has
\* not settled, and its timer has not fired
StillPending(i) ==
    IF i <= Len(aem.state) THEN aem.state[i] = "pending" ELSE FALSE

\* C21: an asynchronous publish starts every listener without waiting for the
\* ones before it; a listener whose awaitable does not settle within the
\* timeout fails with the timeout error, and that error reaches the publisher:
\* the promise the publish returned rejects with the timeout error.
C21_AsyncPublishRejectsOnTimeout ==
    /\ [][aem'.phase = "waiting" => Len(aem'.state) = Len(aem'.ids)]_vars
    /\ [](TimedOut # {} =>
            \E k \in 1..Len(aem.results) : aem.results[k].error = TimeoutError)
    /\ []((aem.phase = "settled" /\ TimedOut # {}) => aem.settled = "rejected")
    /\ \A i \in 1..MaxRegs : StillPending(i) ~> ~StillPending(i)

\* what an asynchronous publish does do: every listener is started by the
\* publish itself, a listener that exceeds the timeout is logged and counts as
\* failed, and the promise returned always fulfils, with null in the place of
\* each listener that failed or timed out
AsyncPublishAlwaysFulfils ==
    /\ [][aem'.phase = "waiting" => Len(aem'.state) = Len(aem'.ids)]_vars
    /\ [](aem.phase = "settled" =>
            /\ aem.settled = "fulfilled"
            /\ Len(aem.value) = Len(aem.ids)
            /\ \A i \in 1..Len(aem.state) :
                  /\ aem.state[i] = "timeout" => aem.value[i] = "null"
                  /\ aem.state[i] = "fulfilled" <=> aem.value[i] = Result)
    /\ [](TimedOut # {} =>
            \E k \in 1..Len(aem.results) : aem.results[k].error = TimeoutError)
    /\ (aem.phase = "waiting") ~> (aem.phase = "settled")

\* the registrations of event type t that no off, unsubscribe function, once
\* delivery or clear has removed
LiveRegistrations(t) ==
    {id \in 1..Len(regs) : regs[id].type = t /\ Registered(events, id)}

\* C30: after any sequence of on, once, off, emit and clear calls an event type
\* is in the registry exactly when it has at least one registered listener;
\* getListenerCount(eventType) is the number of registrations made for the type
\* minus those removed since (each entry of the type's array is one distinct
\* registration of that type, a registration adds one, a once delivery removes
\* its own); a rejected on() call changes nothing.
C30_RegistryHoldsExactlyTheLiveRegistrations ==
    /\ [](\A t \in EventTypes :
            /\ MapHas(events, t) <=> getListenerCount(events, t) >= 1
            /\ getListenerCount(events, t) = Cardinality(LiveRegistrations(t))
            /\ \A k \in 1..Len(RegsOf(events, t)) :
                  LET l == events[t][k]
                  IN /\ l.id \in 1..Len(regs)
                     /\ regs[l.id].type = t
                     /\ regs[l.id].callback = l.callback)
    /\ [][(Len(regs') = Len(regs) + 1 =>
               \A t \in EventTypes :
                  getListenerCount(events', t) =
                     getListenerCount(events, t)
                        + (IF regs'[Len(regs')].type = t THEN 1 ELSE 0))
           /\ ((em.phase = "iter" /\ em'.phase = "in" /\ regs[em'.cur].once) =>
                 ~Registered(events', em'.cur))
           /\ ((\E t \in EventTypes : OnRejected(t)) =>
                 UNCHANGED <<events, regs, resolved>>)
        ]_vars

\* C30 witness: two registrations were made for one event type, the unsubscribe
\* function of the first has removed it, the count is one and no other event
\* type is in the registry.
C30_Witness ==
    /\ Len(regs) = 2
    /\ regs[1].type = regs[2].type
    /\ last = 1
    /\ getListenerCount(events, regs[1].type) = 1
    /\ LiveRegistrations(regs[1].type) = {2}
    /\ DOMAIN events = {regs[1].type}

====
